---- MODULE Spec2Model ----
(***************************************************************************)
(* A model of dssat-pylib: the DSSAT batch-file writer, the cultivar file  *)
(* editor, the soil file updater, cum2daily and the fixed-width field      *)
(* formatter.  Texts are sequences of one-character strings, so that       *)
(* slicing, stripping, padding and substring search are computed as the    *)
(* Python code computes them.                                              *)
(***************************************************************************)
EXTENDS Integers, Sequences, FiniteSets, TLC

VARIABLES
    \* ---- util_dssat.create_DSSBatch
    Fexp,                 \* Fexp.readlines(): the lines of the experiment file
    selected_treatments,  \* None, or a list of treatment names
    DSSBatchFile,         \* the file DSSBatch.v48: whether it exists, and its text
    \* ---- util_cultivar.update_*_cultivar
    culFile,              \* the text of the *.CUL file (source = destination directory)
    culCalls,             \* the number of update calls made
    culCall,              \* the last update call: its record text, the lines read and written
    \* ---- util_read_dssat_out.cum2daily
    cumdata,              \* the argument of cum2daily
    dailydata,            \* its result, once it has been called
    \* ---- util_soil.formatInput
    fmtArgs,              \* input_to_format, space_available, decimal
    fmtResult,            \* the outcome of the call: returned text, or raised
    \* ---- util_soil.update_soil_profile, update_soil_layer_param
    fsoil,                \* the text of the *.SOL file on disk
    fsoil0,               \* its text before any call started
    pc,                   \* where each caller is in its call
    args,                 \* each caller's soil_id, param_name_list, param_values_list
    old_soil_profile,     \* each caller's old_soil_profile
    new_soil_profile,     \* each caller's new_soil_profile
    soil_text,            \* each caller's soil_text, read in update_soil_profile
    observed,             \* what a concurrent reader of the file has read
    \* ---- util_dssat.run_dssat
    run,                  \* the call of run_dssat: its position, arguments, process and result
    \* ---- util_read_dssat_out: a DSSAT output file and the call that reads it
    filePath,             \* the text of the output file
    written,              \* what the file was written from: its runs and their tables
    outArgs,              \* the other arguments of the call
    outResult,            \* what the call returned
    \* ---- util_efficiency: the metrics of a pair of series
    series,               \* the arrays observed and simulated
    metric,               \* the name of the function called, "none" before the call
    metricValue,          \* what it returned
    \* ---- util_soil.fix_missing_soil_param
    given,                \* the two tables as they were before the first call
    fixedTables,          \* the two tables after each call made so far
    \* ---- util_soil.read_soil_profile, called on its own
    solFile,              \* the text of the file at soilFilePath
    solId,                \* the soil_id asked for
    profileRead,          \* what the calls returned, or NotCalled
    \* ---- util_cultivar.update_*_cultivar with two directories
    culSrc,               \* the *.CUL file of cul_srcdir, or None for cul_srcdir = None
    culDst,               \* the *.CUL file of cul_dstdir: whether it exists, and its text
    culArgs,              \* the crop of the function called, and param
    culReturn,            \* what the call returned, or NotCalled
    \* ---- util_read_dssat_out.get_dataChunk_indices, called on its own
    chunkText,            \* the argument text
    chunkTfile,           \* the argument Tfile
    chunkResult,          \* the list of what the call returned, or NotCalled
    \* ---- util_read_dssat_out.get_section_df
    xFile,                \* the text of the file at exp_file
    sectionName,          \* the argument section_name
    sectionResult         \* what the call returned, or NotCalled

batchVars == <<Fexp, selected_treatments, DSSBatchFile>>
culVars == <<culFile, culCalls, culCall>>
cumVars == <<cumdata, dailydata>>
fmtVars == <<fmtArgs, fmtResult>>
soilVars ==
    <<fsoil, fsoil0, pc, args, old_soil_profile, new_soil_profile, soil_text, observed>>
runVars == <<run>>
outVars == <<filePath, written, outArgs, outResult>>
effVars == <<series, metric, metricValue>>
fixVars == <<given, fixedTables>>
readVars == <<solFile, solId, profileRead>>
dirVars == <<culSrc, culDst, culArgs, culReturn>>
chunkVars == <<chunkText, chunkTfile, chunkResult>>
secVars == <<xFile, sectionName, sectionResult>>
vars == <<batchVars, culVars, cumVars, fmtVars, soilVars, runVars, outVars, effVars, fixVars, readVars, dirVars, chunkVars, secVars>>

\* ------------------------------------------------------------------------
\* Python built-ins on str, on sequences of characters
\* ------------------------------------------------------------------------

Min(a, b) == IF a <= b THEN a ELSE b

Max(a, b) == IF a >= b THEN a ELSE b

\* s[i:j] for 0 <= i, 0 <= j (both clamped to len(s))
Slice(s, i, j) == SubSeq(s, i + 1, Min(j, Len(s)))

\* s[i:]
SliceFrom(s, i) == SubSeq(s, i + 1, Len(s))

IsSpace(c) == c \in {" ", "\n", "\t", "\r"}

RECURSIVE LStrip(_)
LStrip(s) ==
    IF s # <<>> /\ IsSpace(Head(s)) THEN LStrip(Tail(s)) ELSE s

RECURSIVE RStrip(_)
RStrip(s) ==
    IF s # <<>> /\ IsSpace(s[Len(s)]) THEN RStrip(SubSeq(s, 1, Len(s) - 1)) ELSE s

\* s.strip()
Strip(s) == RStrip(LStrip(s))

\* s.startswith(p)
StartsWith(s, p) == Len(p) <= Len(s) /\ SubSeq(s, 1, Len(p)) = p

\* p in s
Contains(s, p) == \E i \in 0..(Len(s) - Len(p)) : SubSeq(s, i + 1, i + Len(p)) = p

\* n * ' '  (the empty string when n <= 0)
Spaces(n) == [i \in 1..n |-> " "]

\* s.ljust(w)
Ljust(s, w) == s \o Spaces(w - Len(s))

\* s.rjust(w)
Rjust(s, w) == Spaces(w - Len(s)) \o s

\* x in list
InList(x, list) == \E i \in 1..Len(list) : list[i] = x

\* ''.join(list)
RECURSIVE Join(_)
Join(list) == IF list = <<>> THEN <<>> ELSE Head(list) \o Join(Tail(list))

\* text.splitlines(keepends=True): what readlines() gives for a file holding text
RECURSIVE ReadLines(_)
ReadLines(text) ==
    IF text = <<>> THEN <<>>
    ELSE IF \E i \in 1..Len(text) : text[i] = "\n"
         THEN LET k == CHOOSE i \in 1..Len(text) :
                           text[i] = "\n" /\ \A j \in 1..(i - 1) : text[j] # "\n"
              IN  <<SubSeq(text, 1, k)>> \o ReadLines(SubSeq(text, k + 1, Len(text)))
         ELSE <<text>>

\* ------------------------------------------------------------------------
\* util_dssat.py: create_DSSBatch
\* ------------------------------------------------------------------------

\* Bound: the number of lines of the experiment files explored
MaxExpLines == 4

TreatmentHeader ==
    <<"@", "N", " ", "R", " ", "O", " ", "C", " ", "T", "N", "A", "M", "E", ".", ".", ".">>

\* the file name of the experiment file, ExpFilePath.name
ExpFile == <<"A", ".", "S", "Q", "X">>

\* treatment names: three written in the X file and one in another case
TNAME ==
    [ IRR1 |->
         <<"I", "R", "R", "1">>,
      IRR2 |->
         <<"I", "R", "R", "2">>,
      RAINFED |->
         <<"R", "A", "I", "N", "F", "E", "D">>,
      irr1 |->
         <<"i", "r", "r", "1">>]

\* a treatment row "%2d%2d%2d%2d %s\n" as DSSAT writes it in the X file
TreatmentRow(n, r, o, c, name) ==
    <<" ", n, " ", r, " ", o, " ", c, " ">> \o name \o <<"\n">>

\* The lines an experiment file of the model is made of
ExpLineChoices ==
    { TreatmentHeader \o <<"\n">>,
      <<"\n">>,
      <<"*", "T", "R", "E", "A", "T", "\n">>,
      TreatmentRow("1", "1", "2", "3", TNAME.IRR1),
      TreatmentRow("2", "1", "0", "0", TNAME.IRR2),
      TreatmentRow("3", "1", "0", "1", TNAME.RAINFED) }

\* The values of the selected_treatments argument explored
None == [isNone |-> TRUE, list |-> <<>>]

Some(list) == [isNone |-> FALSE, list |-> list]

FilterChoices ==
    { None, Some(<<TNAME.IRR1, TNAME.RAINFED>>), Some(<<TNAME.IRR2>>), Some(<<TNAME.irr1>>),
     Some(<<>>) }

NoFile == [exists |-> FALSE, text |-> <<>>]

FileWith(text) == [exists |-> TRUE, text |-> text]

\* ScanTreatments without the break at the empty line: the scan goes on to
\* the end of the file
RECURSIVE ScanTreatmentsPastBlank(_, _, _, _, _)
ScanTreatmentsPastBlank(lines, i, param, sel, rows) ==
    IF i > Len(lines) THEN rows
    ELSE IF StartsWith(lines[i], TreatmentHeader)
    THEN ScanTreatmentsPastBlank(lines, i + 1, 1, sel, rows)
    ELSE IF param = 1 /\ ~StartsWith(lines[i], <<"\n">>)
    THEN ScanTreatmentsPastBlank(lines, i + 1, param, sel,
             Append(rows, [TRTNO |-> Slice(lines[i], 0, 2), SQ |-> Slice(lines[i], 2, 4),
                           OP |-> Slice(lines[i], 4, 6), CO |-> Slice(lines[i], 6, 8),
                           TNAME |-> Slice(lines[i], 9, 33)]))
    ELSE ScanTreatmentsPastBlank(lines, i + 1, param, sel, rows)

\* One pass of the loop body of create_DSSBatch over lines[i..], with the
\* flag param; rows is the list of (TRTNO, SQ, OP, CO, TNAME) appended so far.
\* Both branches of the selected_treatments test append the same five slices.
RECURSIVE ScanTreatments(_, _, _, _, _)
ScanTreatments(lines, i, param, sel, rows) ==
    IF i > Len(lines) THEN rows
    ELSE LET line == lines[i] IN
         IF StartsWith(line, TreatmentHeader)
         THEN ScanTreatments(lines, i + 1, 1, sel, rows)
         ELSE IF param = 1 /\ StartsWith(line, <<"\n">>)
         THEN rows
         ELSE IF param = 1
         THEN LET treatments_text == line
                  row == [TRTNO |-> Slice(treatments_text, 0, 2),
                          SQ    |-> Slice(treatments_text, 2, 4),
                          OP    |-> Slice(treatments_text, 4, 6),
                          CO    |-> Slice(treatments_text, 6, 8),
                          TNAME |-> Slice(treatments_text, 9, 33)]
              IN  IF ~sel.isNone /\ InList(Strip(Slice(treatments_text, 9, 33)), sel.list)
                  THEN ScanTreatments(lines, i + 1, param, sel, Append(rows, row))
                  ELSE ScanTreatments(lines, i + 1, param, sel, Append(rows, row))
         ELSE ScanTreatments(lines, i + 1, param, sel, rows)

\* '$BATCH(SEQUENCE)\n!\n' and the '@FILEX ... TRTNO RP SQ OP CO\n' line
BatchHeader ==
    <<"$", "B", "A", "T", "C", "H", "(", "S", "E", "Q", "U", "E", "N", "C", "E", ")", "\n",
      "!", "\n">>
    \o Ljust(<<"@", "F", "I", "L", "E", "X">>, 94)
    \o <<"T", "R", "T", "N", "O">> \o Rjust(<<"R", "P">>, 7) \o Rjust(<<"S", "Q">>, 7)
    \o Rjust(<<"O", "P">>, 7) \o Rjust(<<"C", "O">>, 7) \o <<"\n">>

\* a data row without the second copy of OP: four fields after the file name
BatchRowFourFields(row) ==
    Ljust(ExpFile, 94) \o Rjust(row.TRTNO, 5) \o Rjust(row.SQ, 7) \o Rjust(row.OP, 7)
    \o Rjust(row.CO, 7) \o <<"\n">>

\* one data row of the batch file, as the ''.join([...]) of the loop writes it
BatchRow(row) ==
    Ljust(ExpFile, 94) \o Rjust(row.TRTNO, 5) \o Rjust(row.OP, 7) \o Rjust(row.SQ, 7)
    \o Rjust(row.OP, 7) \o Rjust(row.CO, 7) \o <<"\n">>

\* batch_text after the loop over treatment_df
BatchText(rows) == BatchHeader \o Join([k \in 1..Len(rows) |-> BatchRow(rows[k])])

BoundedSeqs(S, n) == UNION {[1..k -> S] : k \in 0..n}

create_DSSBatch ==
    /\ ~DSSBatchFile.exists
    /\ DSSBatchFile' = FileWith(BatchText(ScanTreatments(Fexp, 1, 0, selected_treatments, <<>>)))
    /\ UNCHANGED <<Fexp, selected_treatments>>
    /\ UNCHANGED <<culVars, cumVars, fmtVars, soilVars, runVars, outVars, effVars, fixVars, readVars, dirVars, chunkVars, secVars>>

\* the lines of a batch text after its three header lines
DataRows(text) == SliceFrom(ReadLines(text), 3)

\* the treatment rows of the experiment file whose display name is in the filter
MatchingRows(lines, sel) ==
    SelectSeq(ScanTreatments(lines, 1, 0, None, <<>>),
              LAMBDA row : InList(Strip(row.TNAME), sel.list))

\* C1: when create_DSSBatch is called with a treatment-name filter, the data
\* rows of the batch file are exactly the treatment rows whose display name
\* is in the filter, in file order, and no other row.
C1_FilteredRowsOnly ==
    (DSSBatchFile.exists /\ ~selected_treatments.isNone) =>
        DataRows(DSSBatchFile.text) =
            LET rows == MatchingRows(Fexp, selected_treatments)
            IN  [k \in 1..Len(rows) |-> BatchRow(rows[k])]

\* ------------------------------------------------------------------------
\* util_read_dssat_out.py: cum2daily
\* ------------------------------------------------------------------------

\* Bounds: the length of the cumulative series explored, and their largest value
MaxCumLen == 4
MaxCumValue == 2

\* the values a cumulative series of the model is made of (whole units)
CumValues == (0 - 1)..MaxCumValue

NotCalled == [called |-> FALSE, raised |-> FALSE, value |-> <<>>]

Returned(v) == [called |-> TRUE, raised |-> FALSE, value |-> v]

Raised == [called |-> TRUE, raised |-> TRUE, value |-> <<>>]

\* cum2daily without the reset branch: every element after the first is a difference
DailyDataNoReset(c) ==
    [k \in 1..Len(c) |-> IF k = 1 THEN c[1] ELSE c[k] - c[k - 1]]

\* dailydata after the loop has run for i = 1 .. len(cumdata)-1 (0-based i)
DailyData(c) ==
    [k \in 1..Len(c) |->
        IF k = 1 THEN c[1]
        ELSE IF c[k] < c[k - 1] THEN c[k] ELSE c[k] - c[k - 1]]

\* cum2daily(cumdata): cumdata[0] raises IndexError on an empty list
cum2daily(c) == IF c = <<>> THEN Raised ELSE Returned(DailyData(c))

cum2daily_call ==
    /\ ~dailydata.called
    /\ dailydata' = cum2daily(cumdata)
    /\ UNCHANGED cumdata
    /\ UNCHANGED <<batchVars, culVars, fmtVars, soilVars, runVars, outVars, effVars, fixVars, readVars, dirVars, chunkVars, secVars>>

\* the running totals of d, restarted (total := d[i]) at every index in resets
RECURSIVE RunningTotals(_, _, _)
RunningTotals(d, resets, k) ==
    IF k = 0 THEN <<>>
    ELSE LET before == RunningTotals(d, resets, k - 1)
         IN  Append(before, IF k = 1 \/ k \in resets THEN d[k]
                            ELSE before[k - 1] + d[k])

\* the indices at which the cumulative series decreases
Decreases(c) == {k \in 2..Len(c) : c[k] < c[k - 1]}

\* C7: for a non-empty cumulative series c, d = cum2daily(c) has the length
\* of c, starts with c[0], sums back to c when the running total restarts
\* exactly at every decrease of c, and holds c[i] itself (not the negative
\* difference) at every decrease.
C7_Cum2DailySumsBack ==
    (dailydata.called /\ cumdata # <<>>) =>
        /\ ~dailydata.raised
        /\ Len(dailydata.value) = Len(cumdata)
        /\ dailydata.value[1] = cumdata[1]
        /\ RunningTotals(dailydata.value, Decreases(cumdata), Len(cumdata)) = cumdata
        /\ \A k \in Decreases(cumdata) : dailydata.value[k] = cumdata[k]

\* a series with a decrease followed by an increase has been converted
C7_Witness ==
    /\ dailydata.called /\ ~dailydata.raised
    /\ \E k \in 2..(Len(cumdata) - 1) :
           cumdata[k] < cumdata[k - 1] /\ cumdata[k + 1] > cumdata[k]

\* ------------------------------------------------------------------------
\* Python numbers and their text: int, float (finite, in thousandths), nan
\* ------------------------------------------------------------------------

\* A value handed to isfloat / formatInput.  kind is "int" (num is the
\* integer), "float" (the value is num/den; FloatVal takes it in
\* thousandths: 2700 is 2.7), "nan" (float('nan')) or "str" (str is the
\* text).
IntVal(n) == [kind |-> "int", num |-> n, den |-> 1, str |-> <<>>]

FloatVal(m) == [kind |-> "float", num |-> m, den |-> 1000, str |-> <<>>]

\* the float n/d, d > 0
RatioVal(n, d) == [kind |-> "float", num |-> n, den |-> d, str |-> <<>>]

NaN == [kind |-> "nan", num |-> 0, den |-> 1, str |-> <<>>]

StrVal(s) == [kind |-> "str", num |-> 0, den |-> 1, str |-> s]

DigitChars == <<"0", "1", "2", "3", "4", "5", "6", "7", "8", "9">>

IsDigit(c) == \E k \in 1..10 : DigitChars[k] = c

DigitValue(c) == (CHOOSE k \in 1..10 : DigitChars[k] = c) - 1

RECURSIVE Pow10(_)
Pow10(k) == IF k <= 0 THEN 1 ELSE 10 * Pow10(k - 1)

Abs(n) == IF n < 0 THEN 0 - n ELSE n

\* str(n) for an int n >= 0
RECURSIVE NatToStr(_)
NatToStr(n) ==
    IF n < 10 THEN <<DigitChars[n + 1]>>
    ELSE NatToStr(n \div 10) \o <<DigitChars[(n % 10) + 1]>>

\* str(n) for an int
IntToStr(n) == IF n < 0 THEN <<"-">> \o NatToStr(0 - n) ELSE NatToStr(n)

\* the digits of n >= 0, zero-padded on the left to k digits
ZeroPadded(n, k) == [i \in 1..(k - Len(NatToStr(n))) |-> "0"] \o NatToStr(n)

\* the value of a string of digits
RECURSIVE DigitsValue(_)
DigitsValue(t) ==
    IF t = <<>> THEN 0
    ELSE 10 * DigitsValue(SubSeq(t, 1, Len(t) - 1)) + DigitValue(t[Len(t)])

AllDigits(t) == \A i \in 1..Len(t) : IsDigit(t[i])

Unsigned(t) == IF t # <<>> /\ Head(t) \in {"+", "-"} THEN Tail(t) ELSE t

\* int(s) accepts s: optional blanks, an optional sign, one or more digits
IntLiteral(s) ==
    LET t == Unsigned(Strip(s)) IN t # <<>> /\ AllDigits(t)

\* int(s) for such an s
StrToInt(s) ==
    LET t == Strip(s)
    IN  IF t # <<>> /\ Head(t) = "-" THEN 0 - DigitsValue(Tail(t))
        ELSE DigitsValue(Unsigned(t))

\* float(s) accepts s: optional blanks, an optional sign, then digits with
\* at most one point and at least one digit, or nan / inf
FloatLiteral(s) ==
    LET t == Unsigned(Strip(s))
        points == {i \in 1..Len(t) : t[i] = "."}
    IN  \/ t \in {<<"n", "a", "n">>, <<"i", "n", "f">>}
        \/ /\ Cardinality(points) <= 1
           /\ \E i \in 1..Len(t) : IsDigit(t[i])
           /\ \A i \in 1..Len(t) : IsDigit(t[i]) \/ t[i] = "."

\* a * 10^d / den rounded half to even, for a >= 0 and den > 0
RECURSIVE RoundScaled(_, _, _)
RoundScaled(a, den, d) ==
    IF d > 0 /\ den % 10 = 0 THEN RoundScaled(a, den \div 10, d - 1)
    ELSE LET n == a * Pow10(d)
             q == n \div den
             r == n % den
         IN  IF 2 * r > den \/ (2 * r = den /\ q % 2 = 1) THEN q + 1 ELSE q

\* '{:.<d>f}'.format(x) and '%.<d>f' % x for d >= 0 and x = num/den: round
\* half to even, keep the sign (also of a value that rounds to zero)
FormatFixed(num, den, d) ==
    LET scaled == RoundScaled(Abs(num), den, d)
        whole == NatToStr(scaled \div Pow10(d))
        frac == IF d = 0 THEN <<>> ELSE <<".">> \o ZeroPadded(scaled % Pow10(d), d)
    IN  (IF num < 0 THEN <<"-">> ELSE <<>>) \o whole \o frac

\* int(x) for a finite float x = num/den: truncation toward zero
Truncate(num, den) == IF num < 0 THEN 0 - ((0 - num) \div den) ELSE num \div den

\* ------------------------------------------------------------------------
\* util_soil.py: isfloat, formatInput
\* ------------------------------------------------------------------------

\* Bounds: the column widths and the decimal places explored
MaxWidth == 7
MaxDecimal == 3

\* isfloat(value): float(value) does not raise ValueError
isfloat(v) == v.kind # "str" \/ FloatLiteral(v.str)

\* whether int(value) raises (ValueError), and its value when it does not
IntRaises(v) == v.kind = "nan" \/ (v.kind = "str" /\ ~IntLiteral(v.str))

IntOf(v) ==
    CASE v.kind = "int" -> v.num
      [] v.kind = "float" -> Truncate(v.num, v.den)
      [] OTHER -> StrToInt(v.str)

\* formatInput without the test for the sentinel -99
Formatted2strNoSentinel(v, decimal) ==
    IF ~isfloat(v) THEN Returned(v.str)
    ELSE IF IntRaises(v) THEN Raised
    ELSE IF decimal # 0
         THEN IF v.kind = "str" THEN Raised
              ELSE Returned(FormatFixed(v.num, v.den, decimal))
         ELSE Returned(IntToStr(IntOf(v)))

\* formatted2str of formatInput, or Raised when the function raises
Formatted2str(v, decimal) ==
    IF ~isfloat(v) THEN Returned(v.str)
    ELSE IF IntRaises(v) THEN Raised
    ELSE IF IntOf(v) = 0 - 99 THEN Returned(IntToStr(IntOf(v)))
    ELSE IF decimal # 0
         THEN IF v.kind = "str" THEN Raised
              ELSE Returned(FormatFixed(v.num, v.den, decimal))
         ELSE Returned(IntToStr(IntOf(v)))

\* a formatter that cuts the text to the column instead of overflowing it
PadLeftTruncating(text, space_available) ==
    IF Len(text) > space_available
    THEN SubSeq(text, Len(text) - space_available + 1, Len(text))
    ELSE Spaces(space_available - Len(text)) \o text

\* padSpace + formatted2str
PadLeft(text, space_available) == Spaces(space_available - Len(text)) \o text

formatInput(v, space_available, decimal) ==
    LET f == Formatted2str(v, decimal)
    IN  IF f.raised THEN Raised ELSE Returned(PadLeft(f.value, space_available))

\* the values formatInput is called with in the model
FmtValues ==
    { IntVal(0 - 99), FloatVal(0 - 99000), StrVal(<<"-", "9", "9">>),
      FloatVal(0 - 99500), StrVal(<<"-", "9", "9", ".", "0">>),
      FloatVal(2700), FloatVal(0 - 2700), FloatVal(0 - 400), FloatVal(250),
      FloatVal(125), FloatVal(12345678), FloatVal(2000), IntVal(5), IntVal(0),
      NaN, StrVal(<<"a", "b", "c">>), StrVal(<<"2", ".", "5">>), StrVal(<<"7">>),
      StrVal(<<>>) }

formatInput_call ==
    /\ ~fmtResult.called
    /\ fmtResult' = formatInput(fmtArgs.input_to_format, fmtArgs.space_available,
                                fmtArgs.decimal)
    /\ UNCHANGED fmtArgs
    /\ UNCHANGED <<batchVars, culVars, cumVars, soilVars, runVars, outVars, effVars, fixVars, readVars, dirVars, chunkVars, secVars>>

\* the sentinel missing-value code as an int, as a float and as the string
\* fix_missing_soil_param back-fills
Sentinels == {IntVal(0 - 99), FloatVal(0 - 99000), StrVal(<<"-", "9", "9">>)}

\* C8: formatInput(-99, width, decimals) returns "-99" right-justified in
\* width characters for every decimals and every width >= 3, for the
\* sentinel given as the int -99, the float -99.0 or the string '-99'.
C8_SentinelBareInteger ==
    (/\ fmtResult.called
     /\ fmtArgs.input_to_format \in Sentinels
     /\ fmtArgs.space_available >= 3) =>
        /\ ~fmtResult.raised
        /\ fmtResult.value = Rjust(<<"-", "9", "9">>, fmtArgs.space_available)

\* the float sentinel has been formatted with a non-zero precision
C8_Witness ==
    /\ fmtResult.called
    /\ fmtArgs.input_to_format = FloatVal(0 - 99000)
    /\ fmtArgs.decimal = 2
    /\ fmtArgs.space_available = 6

HalfWay(m) == m % 1000 = 500

\* the integer nearest to x = m/1000
Nearest(m) == (m + 500) \div 1000

\* C10: for a float x other than the sentinel and decimal = 0, the integer
\* formatInput renders is x rounded to the nearest integer (2.7 gives 3).
C10_RoundsAtZeroDecimals ==
    (/\ fmtResult.called
     /\ fmtArgs.input_to_format.kind = "float"
     /\ fmtArgs.decimal = 0
     /\ IntOf(fmtArgs.input_to_format) # 0 - 99
     /\ ~HalfWay(fmtArgs.input_to_format.num)) =>
        /\ ~fmtResult.raised
        /\ Strip(fmtResult.value) = IntToStr(Nearest(fmtArgs.input_to_format.num))

\* ------------------------------------------------------------------------
\* util_cultivar.py: update_corn_cultivar, update_soybean_cultivar,
\* update_potato_cultivar
\* ------------------------------------------------------------------------

\* Bound: the number of update calls in one behaviour
MaxCulCalls == 2

Crops == {"corn", "soybean", "potato"}

\* '%.<d>f' % x
Pct(d, m) == FormatFixed(m, 1000, d)

SP == <<" ">>

\* VarName cut or padded to n characters
FitName(VarName, n) == IF Len(VarName) > n THEN Slice(VarName, 0, n) ELSE Ljust(VarName, n)

\* CUL_Details of update_corn_cultivar for a dict param
CornDetails(d) ==
    d["VAR"] \o FitName(SP \o d["VRNAME"], 22) \o <<".", " ">> \o d["ECO#"]
    \o SP \o Pct(1, d["P1"]) \o SP \o Pct(3, d["P2"]) \o SP \o Pct(1, d["P5"])
    \o SP \o Pct(1, d["G2"]) \o SP \o SP \o Pct(2, d["G3"]) \o SP \o Pct(2, d["PHINT"])

\* CUL_Details of update_soybean_cultivar for a dict param
SoybeanDetails(d) ==
    LET CUL_Details1 ==
            d["VAR"] \o FitName(SP \o d["VRNAME"], 22) \o <<".", " ">> \o d["ECO#"]
            \o SP \o Pct(2, d["CSDL"]) \o SP \o Pct(3, d["PPSEN"])
            \o SP \o SP \o Pct(1, d["EM-FL"]) \o SP \o SP \o Rjust(Pct(1, d["FL-SH"]), 4)
            \o SP \o SP \o Pct(1, d["FL-SD"]) \o SP \o Pct(2, d["SD-PM"])
        CUL_Details2 ==
            SP \o Pct(2, d["FL-LF"]) \o SP \o Pct(3, d["LFMAX"])
            \o SP \o SP \o Pct(0, d["SLAVR"]) \o <<".">> \o SP \o Pct(1, d["SIZLF"])
            \o SP \o SP \o Pct(2, d["XFRT"]) \o SP \o SP \o Pct(2, d["WTPSD"])
            \o SP \o SP \o Pct(1, d["SFDUR"])
        CUL_Details3 ==
            SP \o SP \o Pct(2, d["SDPDV"]) \o SP \o SP \o Pct(1, d["PODUR"])
            \o SP \o SP \o Pct(1, d["THRSH"])
            \o SP \o SP \o SliceFrom(Pct(3, d["SDPRO"]), 1)
            \o SP \o SP \o SliceFrom(Pct(3, d["SDLIP"]), 1)
    IN  CUL_Details1 \o CUL_Details2 \o CUL_Details3

\* CUL_Details of update_potato_cultivar for a dict param:
\* '{:<5} {:>20} {:>8} {:>5}  {:>4}   {:>3}   {:>3}  {:>4}'.format(...)
PotatoDetails(d) ==
    LET G2 == LET t == Pct(1, d["G2"]) IN SubSeq(t, 1, Len(t) - 1)
    IN  Ljust(d["VAR"], 5) \o SP \o Rjust(FitName(d["VRNAME"], 20), 20)
        \o SP \o Rjust(<<".", " ">> \o d["ECO#"], 8) \o SP \o Rjust(G2, 5)
        \o SP \o SP \o Rjust(Pct(1, d["G3"]), 4)
        \o SP \o SP \o SP \o Rjust(Pct(1, d["PD"]), 3)
        \o SP \o SP \o SP \o Rjust(Pct(1, d["P2"]), 3)
        \o SP \o SP \o Rjust(Pct(1, d["TC"]), 4)

\* the param argument: a dict, a str, or something else
DictParam(d) == [kind |-> "dict", dict |-> d, text |-> <<>>]

StrParam(t) == [kind |-> "str", dict |-> <<>>, text |-> t]

OtherParam == [kind |-> "other", dict |-> <<>>, text |-> <<>>]

\* CUL_Details for a dict or str param
CulDetails(crop, param) ==
    IF param.kind = "str" THEN param.text
    ELSE CASE crop = "corn" -> CornDetails(param.dict)
           [] crop = "soybean" -> SoybeanDetails(param.dict)
           [] OTHER -> PotatoDetails(param.dict)

\* CUL_Line when update_potato_cultivar is called with cul_srcdir = None
PotatoNewFile ==
    << <<"*", "P", "O", "T", "A", "T", "O", " ", "C", "U", "L", "T", "I", "V", "A", "R",
       " ", "C", "O", "E", "F", "F", "I", "C", "I", "E", "N", "T", "S", ":", " ", "P", "T",
       "S", "U", "B", "0", "4", "8", " ", "M", "O", "D", "E", "L", "\n">> ,
       <<"\n", "@", "V", "A", "R", "#", " ", " ", "V", "A", "R", "-", "N", "A", "M", "E",
          ".", ".", ".", ".", ".", ".", ".", ".", " ", "E", "X", "P", "N", "O", " ", " ",
          " ", "E", "C", "O", "#", " ", " ", " ", " ", "G", "2", " ", " ", " ", " ", "G",
          "3", " ", " ", " ", " ", "P", "D", " ", " ", " ", " ", "P", "2", " ", " ", " ",
          " ", "T", "C", "\n">> >>

\* lineIndex2Update after the for ... else statement.  The loop body assigns
\* the index of each line that contains CUL_Details[:6]; the loop has no
\* break, so its else clause runs after every loop and assigns len(CUL_Line).
LineIndex2Update(CUL_Line, CUL_Details) ==
    LET hits == {i \in 1..Len(CUL_Line) : Contains(CUL_Line[i], Slice(CUL_Details, 0, 6))}
        afterLoop == IF hits = {} THEN 0 - 1
                     ELSE (CHOOSE i \in hits : \A j \in hits : j <= i) - 1
        afterElse == Len(CUL_Line)
    IN  afterElse

\* CUL_Line as handed to file.writelines
UpdatedLines(CUL_Line, CUL_Details) ==
    LET lineIndex2Update == LineIndex2Update(CUL_Line, CUL_Details)
    IN  IF lineIndex2Update < Len(CUL_Line)
        THEN [CUL_Line EXCEPT ![lineIndex2Update + 1] = CUL_Details]
        ELSE Append(CUL_Line, <<"\n">> \o CUL_Details)

\* texts of the cultivar files and params: record keys (VAR#), param_dict['ECO#'],
\* param_dict['VRNAME'], the header line, the records already in a file and the
\* params given as preformatted text
CulText ==
    [ KeyA |->
         <<"H", "A", "0", "0", "0", "1">>,
      KeyB |->
         <<"H", "A", "0", "0", "0", "2">>,
      KeyC |->
         <<"H", "A", "0", "0", "0", "3">>,
      EcoCode |->
         <<"I", "B", "0", "0", "0", "1">>,
      ATMODIFIED |->
         <<"A", "T", "-", "M", "O", "D", "I", "F", "I", "E", "D">>,
      CulHeader |->
         <<"@", "V", "A", "R", "#", " ", " ", "V", "R", "N", "A", "M", "E", "\n">>,
      RecordA |->
         <<"H", "A", "0", "0", "0", "1", " ", "O", "L", "D", "-", "A", " ", "1", ".", "0", "\n">>,
      RecordB |->
         <<"H", "A", "0", "0", "0", "2", " ", "O", "L", "D", "-", "B", " ", "2", ".", "0", "\n">>,
      NewRecordA |->
         <<"H", "A", "0", "0", "0", "1", " ", "N", "E", "W", "-", "A", " ", "9", ".", "0">>,
      NewRecordB |->
         <<"H", "A", "0", "0", "0", "2", " ", "N", "E", "W", "-", "B", " ", "8", ".", "0", "\n">>,
      NewRecordC |->
         <<"H", "A", "0", "0", "0", "3", " ", "N", "E", "W", "-", "C", " ", "7", ".", "0">>]

\* the cultivar files a behaviour starts from: each record key on one line
CulFileChoices ==
    { CulText.CulHeader \o CulText.RecordA \o CulText.RecordB,
      CulText.CulHeader \o CulText.RecordA \o RStrip(CulText.RecordB),
      CulText.CulHeader \o CulText.RecordB,
      CulText.CulHeader }

\* the param_dict a cultivar is updated with, per crop
ParamDict ==
    [ corn |->
         ("VAR" :> CulText.KeyC) @@ ("VRNAME" :> <<"N", "E", "W">>)
         @@ ("ECO#" :> CulText.EcoCode) @@ ("P1" :> 200000) @@ ("P2" :> 300) @@ ("P5" :> 800000)
         @@ ("G2" :> 700000) @@ ("G3" :> 8500) @@ ("PHINT" :> 38900),
      soybean |->
         ("VAR" :> CulText.KeyA) @@ ("VRNAME" :> <<"N", "E", "W">>)
         @@ ("ECO#" :> CulText.EcoCode) @@ ("CSDL" :> 13400) @@ ("PPSEN" :> 285)
         @@ ("EM-FL" :> 19000) @@ ("FL-SH" :> 6000) @@ ("FL-SD" :> 13000) @@ ("SD-PM" :> 32000)
         @@ ("FL-LF" :> 26000) @@ ("LFMAX" :> 1030) @@ ("SLAVR" :> 375000)
         @@ ("SIZLF" :> 180000) @@ ("XFRT" :> 1000) @@ ("WTPSD" :> 190) @@ ("SFDUR" :> 23000)
         @@ ("SDPDV" :> 2200) @@ ("PODUR" :> 10000) @@ ("THRSH" :> 77000) @@ ("SDPRO" :> 405)
         @@ ("SDLIP" :> 205),
      potato |->
         ("VAR" :> CulText.KeyA) @@ ("VRNAME" :> CulText.ATMODIFIED)
         @@ ("ECO#" :> CulText.EcoCode) @@ ("G2" :> 900000) @@ ("G3" :> 21000) @@ ("PD" :> 800)
         @@ ("P2" :> 600) @@ ("TC" :> 15000)]

DictOf(crop) ==
    ParamDict[crop]

ParamChoices(crop) ==
    { DictParam(DictOf(crop)), StrParam(CulText.NewRecordA), StrParam(CulText.NewRecordB),
      StrParam(CulText.NewRecordC), OtherParam }

NoCall ==
    [made |-> FALSE, crop |-> "corn", kind |-> "other", details |-> <<>>,
     read |-> <<>>, written |-> <<>>]

\* One call update_<crop>_cultivar(param, dir, dir) with CUL_Line read from
\* the source file; a param that is neither dict nor str returns before the
\* destination is opened.
UpdateCultivar(crop, param, CUL_Line) ==
    /\ culCalls < MaxCulCalls
    /\ culCalls' = culCalls + 1
    /\ IF param.kind = "other"
       THEN /\ culFile' = culFile
            /\ culCall' = [made |-> TRUE, crop |-> crop, kind |-> "other",
                           details |-> <<>>, read |-> CUL_Line, written |-> <<>>]
       ELSE LET CUL_Details == CulDetails(crop, param)
                lines == UpdatedLines(CUL_Line, CUL_Details)
            IN  /\ culFile' = [culFile EXCEPT ![crop] = Join(lines)]
                /\ culCall' = [made |-> TRUE, crop |-> crop, kind |-> param.kind,
                               details |-> CUL_Details, read |-> CUL_Line,
                               written |-> lines]
    /\ UNCHANGED <<batchVars, cumVars, fmtVars, soilVars, runVars, outVars, effVars, fixVars, readVars, dirVars, chunkVars, secVars>>

update_corn_cultivar ==
    \E param \in ParamChoices("corn") :
        UpdateCultivar("corn", param, ReadLines(culFile["corn"]))

update_soybean_cultivar ==
    \E param \in ParamChoices("soybean") :
        UpdateCultivar("soybean", param, ReadLines(culFile["soybean"]))

update_potato_cultivar ==
    \E param \in ParamChoices("potato") :
        \/ UpdateCultivar("potato", param, ReadLines(culFile["potato"]))
        \/ UpdateCultivar("potato", param, PotatoNewFile)

\* the lines of CUL_Line that contain the key of the record
KeyLines(CUL_Line, CUL_Details) ==
    {i \in 1..Len(CUL_Line) : Contains(CUL_Line[i], Slice(CUL_Details, 0, 6))}

\* C2: when some line of the source file contains the record key, that line
\* is replaced in place and as many lines are written as were read; only
\* when no line contains the key is the record appended as one extra line.
C2_ReplacesMatchingLine ==
    (culCall.made /\ culCall.kind # "other") =>
        LET hits == KeyLines(culCall.read, culCall.details)
        IN  IF hits # {}
            THEN /\ Len(culCall.written) = Len(culCall.read)
                 /\ \E i \in hits :
                        culCall.written = [culCall.read EXCEPT ![i] = culCall.details]
            ELSE Len(culCall.written) = Len(culCall.read) + 1

\* the record keys of the model's files and params
RecordKeys == {CulText.KeyA, CulText.KeyB, CulText.KeyC}

\* C3: starting from a file in which each record key is on at most one line,
\* after any sequence of update calls (same source and destination) each
\* record key is still on at most one line of the file.
C3_KeysStayUnique ==
    \A crop \in Crops : \A key \in RecordKeys :
        Cardinality({i \in 1..Len(ReadLines(culFile[crop])) :
                        Contains(ReadLines(culFile[crop])[i], key)}) <= 1

\* ------------------------------------------------------------------------
\* util_cultivar.py: update_*_cultivar with cul_srcdir and cul_dstdir two
\* directories
\* ------------------------------------------------------------------------

\* the destination file opened for writing before param is looked at
DestinationOpenedFirst(crop, param, CUL_Line, destination) ==
    IF param.kind = "other" THEN FileWith(<<>>)
    ELSE FileWith(Join(UpdatedLines(CUL_Line, CulDetails(crop, param))))

\* the file of cul_dstdir after update_<crop>_cultivar(param, cul_srcdir,
\* cul_dstdir): with open(..., 'w') and writelines(CUL_Line) come after the
\* return None for a param that is neither dict nor str
DestinationAfter(crop, param, CUL_Line, destination) ==
    IF param.kind = "other" THEN destination
    ELSE FileWith(Join(UpdatedLines(CUL_Line, CulDetails(crop, param))))

\* one call update_<crop>_cultivar(param, cul_srcdir, cul_dstdir): CUL_Line
\* is read from the file of cul_srcdir, or is the two header lines when
\* update_potato_cultivar is called with cul_srcdir = None
update_cultivar_call ==
    /\ ~culReturn.called
    /\ culDst' = DestinationAfter(culArgs.crop, culArgs.param,
                                  IF culSrc.isNone THEN PotatoNewFile
                                  ELSE ReadLines(culSrc.list),
                                  culDst)
    /\ culReturn' = Returned(None)
    /\ UNCHANGED <<culSrc, culArgs>>
    /\ UNCHANGED <<batchVars, culVars, cumVars, fmtVars, soilVars, runVars, outVars, effVars, fixVars, readVars, chunkVars, secVars>>

\* C29: a cultivar update function called with a param that is neither a
\* dict nor a str returns None and leaves the destination file as it was:
\* not created when it did not exist, with its text when it did.  No call,
\* whatever its param, changes the source file of another directory.
C29_OtherParamWritesNothing ==
    [][update_cultivar_call =>
          /\ culReturn' = Returned(None)
          /\ culSrc' = culSrc
          /\ culArgs.param.kind = "other" => culDst' = culDst]_vars

\* a call with a param that is neither dict nor str has returned, and the
\* destination file does not exist
C29_Witness ==
    /\ culReturn.called
    /\ culArgs.param = OtherParam
    /\ ~culSrc.isNone
    /\ ~culDst.exists

\* ------------------------------------------------------------------------
\* util_soil.py: read_soil_profile, fix_missing_soil_param,
\* create_soil_profile, update_soil_layer_param
\*
\* A value that is used more than once is bound by a set constructor,
\* {e(x) : x \in {v}}, so that it is computed once, as the assignment to a
\* Python variable computes it once.
\* ------------------------------------------------------------------------

\* the position of the first white space of t, or len(t) + 1
FirstSpace(t) ==
    LET at == {i \in 1..Len(t) : IsSpace(t[i])}
    IN  IF at = {} THEN Len(t) + 1 ELSE CHOOSE i \in at : \A j \in at : i <= j

\* line.split(): the words of a line, separated by runs of white space
RECURSIVE Split(_)
Split(line) ==
    CHOOSE words \in
        { IF t = <<>> THEN <<>>
          ELSE CHOOSE w \in { <<SubSeq(t, 1, k - 1)>> \o Split(SubSeq(t, k, Len(t))) :
                              k \in {FirstSpace(t)} } : TRUE :
          t \in {LStrip(line)} } : TRUE

\* line.split('!')[0]: the line up to its first '!'
BeforeBang(line) ==
    LET at == {i \in 1..Len(line) : line[i] = "!"}
    IN  IF at = {} THEN line
        ELSE SubSeq(line, 1, (CHOOSE i \in at : \A j \in at : i <= j) - 1)

\* float(val) for a word that isfloat accepts: nan and inf, or a decimal
\* literal, held in thousandths when it has at most three decimals
StrToFloat(val) ==
    LET t == Unsigned(Strip(val))
        neg == Strip(val) # <<>> /\ Head(Strip(val)) = "-"
        points == {i \in 1..Len(t) : t[i] = "."}
        p == IF points = {} THEN Len(t) + 1 ELSE CHOOSE i \in points : TRUE
        digits == SubSeq(t, 1, p - 1) \o SubSeq(t, p + 1, Len(t))
        k == IF points = {} THEN 0 ELSE Len(t) - p
        n == IF neg THEN 0 - DigitsValue(digits) ELSE DigitsValue(digits)
    IN  IF ~AllDigits(digits) THEN NaN
        ELSE IF k <= 3 THEN FloatVal(n * Pow10(3 - k))
        ELSE RatioVal(n, Pow10(k))

\* float(val) if isfloat(val) else val
Cell(val) == IF isfloat(StrVal(val)) THEN StrToFloat(val) ELSE StrVal(val)

\* a pandas DataFrame with the default RangeIndex: its column labels and
\* its rows of values; raised when building it raises
Frame(columns, rows) == [raised |-> FALSE, columns |-> columns, rows |-> rows]

RaisedFrame == [raised |-> TRUE, columns |-> <<>>, rows |-> <<>>]

\* pd.DataFrame(table_data, columns=table_header): short rows are filled up
\* with missing values, and the widest row must have one value per column
DataFrame(table_data, table_header) ==
    IF table_data = <<>> THEN Frame(table_header, <<>>)
    ELSE LET w == CHOOSE n \in {Len(table_data[i]) : i \in 1..Len(table_data)} :
                      \A i \in 1..Len(table_data) : Len(table_data[i]) <= n
         IN  IF w # Len(table_header) THEN RaisedFrame
             ELSE Frame(table_header,
                        [i \in 1..Len(table_data) |->
                            [j \in 1..Len(table_header) |->
                                IF j <= Len(table_data[i]) THEN table_data[i][j] ELSE NaN]])

\* label in df.columns
HasColumn(df, label) == \E j \in 1..Len(df.columns) : df.columns[j] = label

ColumnIndex(df, label) ==
    CHOOSE j \in 1..Len(df.columns) :
        /\ df.columns[j] = label
        /\ \A i \in 1..(j - 1) : df.columns[i] # label

\* df.loc[row, label], row counted from 0
Loc(df, row, label) == df.rows[row + 1][ColumnIndex(df, label)]

\* df.loc[:, label] = values for a column of df
SetColumn(df, label, values) ==
    CHOOSE out \in
        { Frame(df.columns, [i \in 1..Len(df.rows) |-> [df.rows[i] EXCEPT ![c] = values[i]]]) :
          c \in {ColumnIndex(df, label)} } : TRUE

\* column labels of the soil tables, soil ids and parameter names of the calls
Label ==
    [ SLB |->
         <<"S", "L", "B">>,
      SLPX |->
         <<"S", "L", "P", "X">>,
      ALFVG |->
         <<"A", "L", "F", "V", "G">>,
      NVG |->
         <<"N", "V", "G">>,
      WCRES |->
         <<"W", "C", "R", "E", "S">>,
      SA01 |->
         <<"S", "A", "0", "1">>,
      SB02 |->
         <<"S", "B", "0", "2">>,
      SLLL |->
         <<"S", "L", "L", "L">>,
      SDUL |->
         <<"S", "D", "U", "L">>,
      SALB |->
         <<"S", "A", "L", "B">>,
      XXXX |->
         <<"X", "X", "X", "X">>]

\* df.set_index('SLB'): the SLB column becomes the index
SetIndex(df) ==
    CHOOSE out \in
        { [index |-> [i \in 1..Len(df.rows) |-> df.rows[i][c]],
           columns |-> SubSeq(df.columns, 1, c - 1) \o SubSeq(df.columns, c + 1, Len(df.columns)),
           rows |-> [i \in 1..Len(df.rows) |->
                        SubSeq(df.rows[i], 1, c - 1) \o SubSeq(df.rows[i], c + 1,
                         Len(df.rows[i]))]] :
          c \in {ColumnIndex(df, Label.SLB)} } : TRUE

\* the elements of a sequence in the order of their first appearance
Unique(s) ==
    LET keep == {i \in 1..Len(s) : \A j \in 1..(i - 1) : s[j] # s[i]}
    IN  [k \in 1..Cardinality(keep) |->
            s[CHOOSE i \in keep : Cardinality({j \in keep : j < i}) = k - 1]]

\* the rows of the tables side by side, in the order of index
JoinedRows(tables, index, aligned) ==
    [i \in 1..Len(index) |->
        <<index[i]>> \o
        Join([k \in 1..Len(tables) |->
                 IF aligned THEN tables[k].rows[i]
                 ELSE IF InList(index[i], tables[k].index)
                      THEN tables[k].rows[CHOOSE r \in 1..Len(tables[k].index) :
                                              tables[k].index[r] = index[i]]
                      ELSE [j \in 1..Len(tables[k].columns) |-> NaN]])]

\* pd.concat(tables, axis=1).reset_index(): the tables side by side, row
\* by row when they list the same layers, joined on the layer depth (a
\* layer missing from a table gets missing values) when they do not
ConcatColumns(tables) ==
    IF tables = <<>> THEN RaisedFrame
    ELSE CHOOSE out \in
        { IF ~aligned /\ \E k \in 1..Len(tables) : Unique(tables[k].index) # tables[k].index
          THEN RaisedFrame
          ELSE CHOOSE o \in
                  { Frame(<<Label.SLB>> \o Join([k \in 1..Len(tables) |-> tables[k].columns]),
                          JoinedRows(tables, index, aligned)) :
                    index \in { IF aligned THEN tables[1].index
                                ELSE CHOOSE u \in { Unique(all) :
                                         all \in {Join([k \in 1..Len(tables) |-> tables[k].index])} } :
                                         TRUE } } : TRUE :
          aligned \in {\A k \in 1..Len(tables) : tables[k].index = tables[1].index} } : TRUE

\* the state of the loop of read_soil_profile over the lines of the file
ScanStart ==
    [param |-> 0, section |-> <<>>, soil_text |-> <<>>, soil_lines |-> <<>>,
     headers |-> <<>>, stopped |-> FALSE, raised |-> FALSE]

\* section.append([]) and headers.append(line) for a line starting with '@'
OpenSection(st, line) ==
    IF StartsWith(line, <<"@">>)
    THEN [st EXCEPT !.section = Append(@, <<>>), !.headers = Append(@, line)]
    ELSE st

\* one turn of that loop
ScanLine(st, line, soil_id) ==
    IF st.stopped \/ st.raised THEN st
    ELSE IF StartsWith(line, <<"*">> \o soil_id)
    THEN [st EXCEPT !.param = 1,
                    !.soil_text = @ \o line,
                    !.soil_lines = Append(@, line)]
    ELSE IF st.param # 1 THEN st
    ELSE IF StartsWith(line, <<"*">>) THEN [st EXCEPT !.param = 0, !.stopped = TRUE]
    ELSE IF line = <<"\n">> \/ StartsWith(line, <<"!">>) \/ Strip(line) = <<>>
    THEN [st EXCEPT !.soil_text = @ \o line]
    ELSE CHOOSE out \in
            { IF opened.section = <<>> THEN [st EXCEPT !.raised = TRUE]
              ELSE [opened EXCEPT
                       !.section[Len(opened.section)] = Append(@, Strip(BeforeBang(line))),
                       !.soil_text = @ \o line,
                       !.soil_lines = Append(@, line)] :
              opened \in {OpenSection(st, line)} } : TRUE

RECURSIVE ScanSoil(_, _, _, _)
ScanSoil(lines, i, st, soil_id) ==
    IF i > Len(lines) THEN st
    ELSE CHOOSE out \in { ScanSoil(lines, i + 1, next, soil_id) :
                          next \in {ScanLine(st, lines[i], soil_id)} } : TRUE

\* [float(val) if isfloat(val) else val for val in line.split()]
ParseLine(line) ==
    CHOOSE row \in { [j \in 1..Len(words) |-> Cell(words[j])] : words \in {Split(line)} } : TRUE

\* the table of one section: its header without the first two characters,
\* split into labels, and one row of cells per data line
SectionTable(Data) ==
    CHOOSE df \in
        { DataFrame(table_data, table_header) :
          table_data \in {[i \in 1..(Len(Data) - 1) |-> ParseLine(Data[i + 1])]},
          table_header \in {Split(SliceFrom(Data[1], 2))} } : TRUE

NoProfile ==
    [raised |-> TRUE, soil_info_df |-> RaisedFrame, soil_layered_info_df |-> RaisedFrame,
     soil_lines |-> <<>>, soil_text |-> <<>>, headertext_list |-> <<>>]

\* the tables and texts read_soil_profile returns after its loop
ProfileOf(st, soil_info_df, layered) ==
    IF soil_info_df.raised THEN NoProfile
    ELSE IF \E k \in 1..Len(layered) : layered[k].raised \/ ~HasColumn(layered[k], Label.SLB)
    THEN NoProfile
    ELSE CHOOSE out \in
        { IF soil_layered_info_df.raised THEN NoProfile
          ELSE [raised |-> FALSE,
                soil_info_df |-> soil_info_df,
                soil_layered_info_df |-> soil_layered_info_df,
                soil_lines |-> st.soil_lines,
                soil_text |-> st.soil_text,
                headertext_list |->
                    <<Join(SubSeq(st.soil_lines, 1, Min(4, Len(st.soil_lines))))>>
                    \o SubSeq(st.headers, 3, Len(st.headers))] :
          soil_layered_info_df \in
              { ConcatColumns(tables) :
                tables \in {[k \in 1..Len(layered) |-> SetIndex(layered[k])]} } } : TRUE

\* the loop of read_soil_profile over the file holding the text file
ScanFile(file, soil_id) ==
    CHOOSE st \in { ScanSoil(lines, 1, ScanStart, soil_id) : lines \in {ReadLines(file)} } : TRUE

\* read_soil_profile(soilFilePath, soil_id)
read_soil_profile(file, soil_id) ==
    CHOOSE out \in
        { IF st.raised \/ Len(st.section) < 2 THEN NoProfile
          ELSE CHOOSE o \in
                  { ProfileOf(st, soil_info_df, layered) :
                    soil_info_df \in {SectionTable(st.section[2])},
                    layered \in {[k \in 1..(Len(st.section) - 2) |->
                                    SectionTable(st.section[k + 2])]} } : TRUE :
          st \in {ScanFile(file, soil_id)} } : TRUE

\* read_soil_profile(soilFilePath, soil_id, OnlyText=True)
read_soil_text(file, soil_id) ==
    CHOOSE out \in { IF st.raised THEN Raised ELSE Returned(st.soil_text) :
                     st \in {ScanFile(file, soil_id)} } : TRUE

\* the fields of the general table and of the three layered tables, each
\* with the column width and the decimals create_soil_profile formats it with
soil_info_params ==
    << <<<<"S", "C", "O", "M">>, 6, 0>>,
       <<<<"S", "A", "L", "B">>, 6, 2>>,
       <<<<"S", "L", "U", "1">>, 6, 1>>,
       <<<<"S", "L", "D", "R">>, 6, 2>>,
       <<<<"S", "L", "R", "O">>, 6, 1>>,
       <<<<"S", "L", "N", "F">>, 6, 2>>,
       <<<<"S", "L", "P", "F">>, 6, 2>>,
       <<<<"S", "M", "H", "B">>, 6, 0>>,
       <<<<"S", "M", "P", "X">>, 6, 0>>,
       <<<<"S", "M", "K", "E">>, 6, 0>> >>

soil_layered_info_params_tier1 ==
    << <<<<"S", "L", "B">>, 6, 0>>,
       <<<<"S", "L", "M", "H">>, 5, 0>>,
       <<<<"S", "L", "L", "L">>, 7, 3>>,
       <<<<"S", "D", "U", "L">>, 6, 3>>,
       <<<<"S", "S", "A", "T">>, 6, 3>>,
       <<<<"S", "R", "G", "F">>, 6, 3>>,
       <<<<"S", "S", "K", "S">>, 6, 2>>,
       <<<<"S", "B", "D", "M">>, 6, 2>>,
       <<<<"S", "L", "O", "C">>, 6, 2>>,
       <<<<"S", "L", "C", "L">>, 6, 1>>,
       <<<<"S", "L", "S", "I">>, 6, 1>>,
       <<<<"S", "L", "C", "F">>, 6, 1>>,
       <<<<"S", "L", "N", "I">>, 6, 3>>,
       <<<<"S", "L", "H", "W">>, 6, 1>>,
       <<<<"S", "L", "H", "B">>, 6, 1>>,
       <<<<"S", "C", "E", "C">>, 6, 1>>,
       <<<<"S", "A", "D", "C">>, 6, 2>> >>

soil_layered_info_params_tier2 ==
    << <<<<"S", "L", "B">>, 6, 0>>,
       <<<<"S", "L", "P", "X">>, 6, 1>>,
       <<<<"S", "L", "P", "T">>, 6, 0>>,
       <<<<"S", "L", "P", "O">>, 6, 3>>,
       <<<<"C", "A", "C", "O", "3">>, 6, 3>>,
       <<<<"S", "L", "A", "L">>, 6, 3>>,
       <<<<"S", "L", "F", "E">>, 6, 3>>,
       <<<<"S", "L", "M", "N">>, 6, 3>>,
       <<<<"S", "L", "B", "S">>, 6, 3>>,
       <<<<"S", "L", "P", "A">>, 6, 3>>,
       <<<<"S", "L", "P", "B">>, 6, 3>>,
       <<<<"S", "L", "K", "E">>, 6, 3>>,
       <<<<"S", "L", "M", "G">>, 6, 3>>,
       <<<<"S", "L", "N", "A">>, 6, 3>>,
       <<<<"S", "L", "S", "U">>, 6, 3>>,
       <<<<"S", "L", "E", "C">>, 6, 3>>,
       <<<<"S", "L", "C", "A">>, 6, 3>> >>

soil_layered_info_params_tier3 ==
    << <<"S", "L", "B">>, <<"A", "L", "F", "V", "G">>, <<"M", "V", "G">>, <<"N", "V", "G">>,
     <<"W", "C", "R", "E", "S">> >>

\* the text '-99' that fills a missing column
Missing == StrVal(<<"-", "9", "9">>)

\* FillMissing that sets the columns already there to '-99' as well
FillMissingOverwrites(df, labels) ==
    Frame(df.columns \o SelectSeq(labels, LAMBDA l : ~HasColumn(df, l)),
          [i \in 1..Len(df.rows) |->
              [j \in 1..Len(df.columns) |->
                  IF InList(df.columns[j], labels) THEN Missing ELSE df.rows[i][j]]
              \o [j \in 1..Len(SelectSeq(labels, LAMBDA l : ~HasColumn(df, l))) |-> Missing]])

\* df[soil_param] = ['-99' ...] for every label of the list not in df.columns
FillMissing(df, labels) ==
    CHOOSE out \in
        { Frame(df.columns \o absent,
                [i \in 1..Len(df.rows) |-> df.rows[i] \o [j \in 1..Len(absent) |-> Missing]]) :
          absent \in {SelectSeq(labels, LAMBDA l : ~HasColumn(df, l))} } : TRUE

Labels(layout) == [i \in 1..Len(layout) |-> layout[i][1]]

\* fix_missing_soil_param(soil_info_df, soil_layered_info_df)
fix_missing_soil_param(soil_info_df, soil_layered_info_df) ==
    CHOOSE out \in
        { <<FillMissing(soil_info_df, Labels(soil_info_params)), t3>> :
          t3 \in { IF HasColumn(t2, Label.ALFVG)
                   THEN FillMissing(t2, soil_layered_info_params_tier3) ELSE t2 :
                   t2 \in { IF HasColumn(t1, Label.SLPX)
                            THEN FillMissing(t1, Labels(soil_layered_info_params_tier2))
                            ELSE t1 :
                            t1 \in {FillMissing(soil_layered_info_df,
                                                Labels(soil_layered_info_params_tier1))} } } } :
        TRUE

\* the formatted cells of one row of a table, in the order of the layout;
\* raised when a column or the row is missing or formatInput raises
FormatRow(df, row, layout) ==
    IF ~(row < Len(df.rows) /\ \A i \in 1..Len(layout) : HasColumn(df, layout[i][1]))
    THEN Raised
    ELSE CHOOSE out \in
        { IF \E i \in 1..Len(layout) : cells[i].raised THEN Raised
          ELSE Returned(Join([i \in 1..Len(layout) |-> cells[i].value])) :
          cells \in {[i \in 1..Len(layout) |->
                        formatInput(Loc(df, row, layout[i][1]), layout[i][2], layout[i][3])]} } :
        TRUE

\* 1-(1/float(NVG)) for the formatted text NVG: raised when float or the
\* division raises
OneMinusInverse(NVGtext) ==
    IF ~FloatLiteral(NVGtext) THEN Raised
    ELSE CHOOSE out \in
        { IF x.kind = "nan" \/ x.num = 0 THEN Raised
          ELSE IF x.num > 0 THEN Returned(RatioVal(x.num - x.den, x.num))
          ELSE Returned(RatioVal(x.den - x.num, 0 - x.num)) :
          x \in {StrToFloat(NVGtext)} } : TRUE

\* SLB, ALFVG, MVG, NVG, WCRES of one row
FormatRowTier3(df, row) ==
    IF ~(row < Len(df.rows) /\ \A l \in {Label.SLB, Label.ALFVG, Label.NVG,
     Label.WCRES} : HasColumn(df, l))
    THEN Raised
    ELSE CHOOSE out \in
        { IF cSLB.raised \/ cALFVG.raised \/ cNVG.raised \/ cWCRES.raised THEN Raised
          ELSE CHOOSE o \in
                  { IF m.raised THEN Raised
                    ELSE CHOOSE o2 \in
                            { IF cMVG.raised THEN Raised
                              ELSE Returned(cSLB.value \o cALFVG.value \o cMVG.value
                                            \o cNVG.value \o cWCRES.value) :
                              cMVG \in {formatInput(m.value, 6, 3)} } : TRUE :
                    m \in {OneMinusInverse(cNVG.value)} } : TRUE :
          cSLB \in {formatInput(Loc(df, row, Label.SLB), 6, 0)},
          cALFVG \in {formatInput(Loc(df, row, Label.ALFVG), 6, 3)},
          cNVG \in {formatInput(Loc(df, row, Label.NVG), 6, 3)},
          cWCRES \in {formatInput(Loc(df, row, Label.WCRES), 6, 3)} } : TRUE

\* header text followed by one formatted line per row of the layered table
TierText(df, header, tier) ==
    CHOOSE out \in
        { IF \E r \in 1..Len(lines) : lines[r].raised THEN Raised
          ELSE Returned(header \o Join([r \in 1..Len(lines) |-> lines[r].value \o <<"\n">>])) :
          lines \in {[r \in 1..Len(df.rows) |->
                        IF tier = 3 THEN FormatRowTier3(df, r - 1)
                        ELSE FormatRow(df, r - 1,
                                       IF tier = 1 THEN soil_layered_info_params_tier1
                                       ELSE soil_layered_info_params_tier2)]} } : TRUE

\* the tables create_soil_profile writes after the first layered table
TiersOf(soil_layered_info_df) ==
    IF HasColumn(soil_layered_info_df, Label.SLPX) /\ HasColumn(soil_layered_info_df, Label.ALFVG)
    THEN <<2, 3>>
    ELSE IF HasColumn(soil_layered_info_df, Label.SLPX) THEN <<2>>
    ELSE IF HasColumn(soil_layered_info_df, Label.ALFVG) THEN <<3>>
    ELSE <<>>

\* create_soil_profile(soil_layered_info_df, soil_info_df, headertext_list)
create_soil_profile(soil_layered_info_df, soil_info_df, headertext_list) ==
    CHOOSE out \in
        { IF Len(headertext_list) < 2 + Len(tiers) THEN Raised
          ELSE CHOOSE o \in
                  { IF general.raised \/ \E k \in 1..Len(parts) : parts[k].raised THEN Raised
                    ELSE Returned(headertext_list[1] \o general.value \o <<"\n">>
                                  \o Join([k \in 1..Len(parts) |-> parts[k].value])) :
                    general \in {FormatRow(soil_info_df, 0, soil_info_params)},
                    parts \in {[k \in 1..(1 + Len(tiers)) |->
                                  TierText(soil_layered_info_df, headertext_list[k + 1],
                                           IF k = 1 THEN 1 ELSE tiers[k - 1])]} } : TRUE :
          tiers \in {TiersOf(soil_layered_info_df)} } : TRUE

\* one turn of the loop of update_soil_layer_param over param_name_list:
\* df.loc[:, param_name] = param_values_list[i] in each table that has the
\* column; a list that has not one value per row raises
SetParam(tables, param_name, param_values_list, i) ==
    LET hitL == HasColumn(tables.layered, param_name)
        hitI == HasColumn(tables.info, param_name)
    IN  IF (hitL \/ hitI) /\ i > Len(param_values_list)
        THEN [tables EXCEPT !.raised = TRUE]
        ELSE IF \/ hitL /\ Len(param_values_list[i]) # Len(tables.layered.rows)
                \/ hitI /\ Len(param_values_list[i]) # Len(tables.info.rows)
        THEN [tables EXCEPT !.raised = TRUE]
        ELSE [raised |-> FALSE,
              layered |-> IF hitL
                          THEN SetColumn(tables.layered, param_name, param_values_list[i])
                          ELSE tables.layered,
              info |-> IF hitI
                       THEN SetColumn(tables.info, param_name, param_values_list[i])
                       ELSE tables.info]

RECURSIVE SetParams(_, _, _, _)
SetParams(tables, param_name_list, param_values_list, i) ==
    IF i > Len(param_name_list) \/ tables.raised THEN tables
    ELSE CHOOSE out \in
        { SetParams(next, param_name_list, param_values_list, i + 1) :
          next \in {SetParam(tables, param_name_list[i], param_values_list, i)} } : TRUE

\* what update_soil_layer_param hands to update_soil_profile, or raised
NoUpdate == [raised |-> TRUE, old |-> <<>>, new |-> <<>>]

\* create_soil_profile on the updated tables
Rewritten(read, tables) ==
    IF tables.raised THEN NoUpdate
    ELSE CHOOSE out \in
        { IF new.raised THEN NoUpdate
          ELSE [raised |-> FALSE, old |-> read.soil_text, new |-> new.value] :
          new \in {create_soil_profile(tables.layered, tables.info, read.headertext_list)} } :
        TRUE

\* fix_missing_soil_param and the parameter loop on what was read
Updated(read, param_name_list, param_values_list) ==
    IF read.raised THEN NoUpdate
    ELSE CHOOSE out \in
        { Rewritten(read, tables) :
          tables \in
              { SetParams([raised |-> FALSE, layered |-> fixed[2], info |-> fixed[1]],
                          param_name_list, param_values_list, 1) :
                fixed \in {fix_missing_soil_param(read.soil_info_df,
                                                  read.soil_layered_info_df)} } } : TRUE

\* update_soil_layer_param up to its call of update_soil_profile: the old
\* and the new record text, or raised
NewProfile(file, soil_id, param_name_list, param_values_list) ==
    CHOOSE out \in
        { Updated(read, param_name_list, param_values_list) :
          read \in {read_soil_profile(file, soil_id)} } : TRUE

\* ------------------------------------------------------------------------
\* util_soil.py: update_soil_profile, step by step
\* ------------------------------------------------------------------------

\* Bounds: the length of the file text, and of the old and new record texts,
\* of the update_soil_profile calls explored
MaxSoilText == 4
MaxProfileText == 2

\* the callers that may run against the same soil file
Procs == {1, 2}

\* the characters of the texts update_soil_profile is called with
SoilChars == {"a", "b"}

\* text.find(old, from): the offset of the first occurrence of old at or
\* after the offset from, or -1
Find(text, old, from) ==
    LET at == {i \in from..(Len(text) - Len(old)) : SubSeq(text, i + 1, i + Len(old)) = old}
    IN  IF at = {} THEN 0 - 1 ELSE CHOOSE i \in at : \A j \in at : i <= j

\* the text from the offset from on, with every occurrence of a non-empty
\* old replaced
RECURSIVE ReplaceFrom(_, _, _, _)
ReplaceFrom(text, old, new, from) ==
    CHOOSE out \in
        { IF k < 0 THEN SliceFrom(text, from)
          ELSE SubSeq(text, from + 1, k) \o new \o ReplaceFrom(text, old, new, k + Len(old)) :
          k \in {Find(text, old, from)} } : TRUE

\* str.replace restricted to the first occurrence: text.replace(old, new, 1)
ReplaceFirstOnly(text, old, new) ==
    LET k == Find(text, old, 0)
    IN  IF k < 0 THEN text
        ELSE SubSeq(text, 1, k) \o new \o SliceFrom(text, k + Len(old))

\* text.replace(old, new): every occurrence of old, found scanning from the
\* left and not overlapping an earlier one, becomes new; an empty old
\* matches before every character and at the end
Replace(text, old, new) ==
    IF old = <<>>
    THEN [k \in 1..(Len(new) + Len(text) * (Len(new) + 1)) |->
             IF k <= Len(new) THEN new[k]
             ELSE LET j == k - Len(new) - 1
                  IN  IF j % (Len(new) + 1) = 0 THEN text[(j \div (Len(new) + 1)) + 1]
                      ELSE new[j % (Len(new) + 1)]]
    ELSE ReplaceFrom(text, old, new, 0)

\* fsoil.truncate(0) leaves an empty file
TruncateKeeps(text) == text

Truncate0(text) == <<>>

\* open(soilFilePath, 'w') empties the file
OpenW(text) == <<>>

\* a writer that appends to the file
WriteAppending(file, text) == file \o text

\* fsoil.write(text) by a writer whose file position is 0: the text
\* overwrites the file from its start; what lies beyond it stays
WriteAt0(file, text) == text \o SliceFrom(file, Len(text))

NoArgs == [soil_id |-> <<>>, param_name_list |-> <<>>, param_values_list |-> <<>>]

NotObserved == [made |-> FALSE, text |-> <<>>, during |-> "none"]

\* with open(soilFilePath, 'r+'): the loop reads every line, then replace
USP_Read(p) ==
    /\ pc[p] = "update"
    /\ soil_text' = [soil_text EXCEPT
                        ![p] = Replace(fsoil, old_soil_profile[p], new_soil_profile[p])]
    /\ pc' = [pc EXCEPT ![p] = "read"]
    /\ UNCHANGED <<fsoil, fsoil0, args, old_soil_profile, new_soil_profile, observed>>
    /\ UNCHANGED <<batchVars, culVars, cumVars, fmtVars, runVars, outVars, effVars, fixVars, readVars, dirVars, chunkVars, secVars>>

\* fsoil.truncate(0), and the file is closed at the end of the with block
USP_Truncate(p) ==
    /\ pc[p] = "read"
    /\ fsoil' = Truncate0(fsoil)
    /\ pc' = [pc EXCEPT ![p] = "truncated"]
    /\ UNCHANGED <<fsoil0, args, old_soil_profile, new_soil_profile, soil_text, observed>>
    /\ UNCHANGED <<batchVars, culVars, cumVars, fmtVars, runVars, outVars, effVars, fixVars, readVars, dirVars, chunkVars, secVars>>

\* with open(soilFilePath, 'w')
USP_OpenW(p) ==
    /\ pc[p] = "truncated"
    /\ fsoil' = OpenW(fsoil)
    /\ pc' = [pc EXCEPT ![p] = "opened"]
    /\ UNCHANGED <<fsoil0, args, old_soil_profile, new_soil_profile, soil_text, observed>>
    /\ UNCHANGED <<batchVars, culVars, cumVars, fmtVars, runVars, outVars, effVars, fixVars, readVars, dirVars, chunkVars, secVars>>

\* fsoil.write(soil_text), flushed when the with block closes the file
USP_Write(p) ==
    /\ pc[p] = "opened"
    /\ fsoil' = WriteAt0(fsoil, soil_text[p])
    /\ pc' = [pc EXCEPT ![p] = "done"]
    /\ UNCHANGED <<fsoil0, args, old_soil_profile, new_soil_profile, soil_text, observed>>
    /\ UNCHANGED <<batchVars, culVars, cumVars, fmtVars, runVars, outVars, effVars, fixVars, readVars, dirVars, chunkVars, secVars>>

\* another process reads the whole file while caller 1 may be anywhere in
\* its call
ReaderReads ==
    /\ ~observed.made
    /\ observed' = [made |-> TRUE, text |-> fsoil, during |-> pc[1]]
    /\ UNCHANGED <<fsoil, fsoil0, pc, args, old_soil_profile, new_soil_profile, soil_text>>
    /\ UNCHANGED <<batchVars, culVars, cumVars, fmtVars, runVars, outVars, effVars, fixVars, readVars, dirVars, chunkVars, secVars>>

\* the text read character by character from the left: where old starts
\* it is skipped and new is put in its place, any other character is kept
RECURSIVE EveryOccurrenceReplaced(_, _, _)
EveryOccurrenceReplaced(text, old, new) ==
    IF Len(text) < Len(old) THEN text
    ELSE IF SubSeq(text, 1, Len(old)) = old
         THEN new \o EveryOccurrenceReplaced(SubSeq(text, Len(old) + 1, Len(text)), old, new)
         ELSE <<Head(text)>> \o EveryOccurrenceReplaced(Tail(text), old, new)

\* the number of occurrences of old met that way
RECURSIVE Occurrences(_, _)
Occurrences(text, old) ==
    IF Len(text) < Len(old) THEN 0
    ELSE IF SubSeq(text, 1, Len(old)) = old
         THEN 1 + Occurrences(SubSeq(text, Len(old) + 1, Len(text)), old)
         ELSE Occurrences(Tail(text), old)

\* C4 as stated: update_soil_profile replaces only the first occurrence of
\* old_soil_profile; a later occurrence and every other character are
\* written back unchanged.
C4_ReplacesFirstOccurrenceOnly ==
    pc[1] = "done" =>
        fsoil = ReplaceFirstOnly(fsoil0, old_soil_profile[1], new_soil_profile[1])

\* C4 amended: update_soil_profile replaces every occurrence of a non-empty
\* old_soil_profile (found from the left, not overlapping an earlier one)
\* with new_soil_profile and writes every character outside these
\* occurrences back unchanged; when the old text does not occur the file
\* content is unchanged.
C4_ReplacesEveryOccurrence ==
    (pc[1] = "done" /\ old_soil_profile[1] # <<>>) =>
        /\ fsoil = EveryOccurrenceReplaced(fsoil0, old_soil_profile[1], new_soil_profile[1])
        /\ (Occurrences(fsoil0, old_soil_profile[1]) = 0 => fsoil = fsoil0)

\* a call has finished on a file holding the old text twice, with a new
\* text that differs from it
C4_Witness ==
    /\ pc[1] = "done"
    /\ old_soil_profile[1] # <<>>
    /\ new_soil_profile[1] # old_soil_profile[1]
    /\ Occurrences(fsoil0, old_soil_profile[1]) = 2

\* C5: update_soil_profile is not atomic.  From its truncate until its write
\* the file on disk is empty, and a concurrent reader reads the text before
\* the call, the text after it, or, when it reads in between, the empty file:
\* content that is neither of the two.
C5_ReaderSeesTruncatedFile ==
    /\ pc[1] \in {"truncated", "opened"} => fsoil = <<>>
    /\ observed.made =>
          IF observed.during \in {"truncated", "opened"}
          THEN observed.text = <<>>
          ELSE observed.text \in {fsoil0, soil_text[1]}

\* the reader has read, during an update that changes a non-empty file into
\* a non-empty file, a text that is neither the one before nor the one after
C5_Witness ==
    /\ observed.made
    /\ pc[1] = "done"
    /\ fsoil0 # <<>> /\ fsoil # <<>> /\ fsoil # fsoil0
    /\ observed.text # fsoil0
    /\ observed.text # fsoil

\* ------------------------------------------------------------------------
\* util_soil.py: update_soil_layer_param, called by two processes
\* ------------------------------------------------------------------------

\* the lines the soil files of the model are made of
SoilLine ==
    [ MarkerA |->
         <<"*", "S", "A", "0", "1", " ", " ", "D", "E", "M", "O", " ", "A", "\n">>,
      MarkerB |->
         <<"*", "S", "B", "0", "2", " ", " ", "D", "E", "M", "O", " ", "B", "\n">>,
      SiteHeader |->
         <<"@", "S", "I", "T", "E", "\n">>,
      SiteRow |->
         <<" ", "X", "\n">>,
      GeneralHeader |->
         <<"@", " ", "S", "C", "O", "M", " ", " ", "S", "A", "L", "B", " ", " ", "S", "L", "U",
          "1", " ", " ", "S", "L", "D", "R", " ", " ", "S", "L", "R", "O", " ", " ", "S", "L",
          "N", "F", " ", " ", "S", "L", "P", "F", " ", " ", "S", "M", "H", "B", " ", " ", "S",
          "M", "P", "X", " ", " ", "S", "M", "K", "E", "\n">>,
      GeneralRow |->
         <<" ", " ", " ", " ", "B", "N", " ", " ", "0", ".", "1", "3", " ", " ", " ", "6", ".",
          "0", " ", " ", "0", ".", "4", "0", " ", " ", "7", "5", ".", "0", " ", " ", "1", ".",
          "0", "0", " ", " ", "1", ".", "0", "0", " ", "I", "B", "0", "0", "1", " ", "I", "B",
          "0", "0", "1", " ", "I", "B", "0", "0", "1", "\n">>,
      Tier1Header |->
         <<"@", " ", " ", "S", "L", "B", " ", "S", "L", "M", "H", " ", " ", " ", "S", "L", "L",
          "L", " ", " ", "S", "D", "U", "L", " ", " ", "S", "S", "A", "T", " ", " ", "S", "R",
          "G", "F", " ", " ", "S", "S", "K", "S", " ", " ", "S", "B", "D", "M", " ", " ", "S",
          "L", "O", "C", " ", " ", "S", "L", "C", "L", " ", " ", "S", "L", "S", "I", " ", " ",
          "S", "L", "C", "F", " ", " ", "S", "L", "N", "I", " ", " ", "S", "L", "H", "W", " ",
          " ", "S", "L", "H", "B", " ", " ", "S", "C", "E", "C", " ", " ", "S", "A", "D", "C",
          "\n">>,
      LayerRow5 |->
         <<" ", " ", " ", " ", " ", "5", " ", " ", " ", " ", "A", " ", " ", "0", ".", "1", "0",
          "0", " ", "0", ".", "2", "0", "0", " ", "0", ".", "4", "0", "0", " ", "1", ".", "0",
          "0", "0", " ", " ", "1", ".", "5", "0", " ", " ", "1", ".", "3", "0", " ", " ", "0",
          ".", "9", "0", " ", " ", "3", "0", ".", "0", " ", " ", "3", "0", ".", "0", " ", " ",
          " ", "0", ".", "0", " ", "0", ".", "1", "0", "0", " ", " ", " ", "6", ".", "5", " ",
          " ", " ", "-", "9", "9", " ", " ", "2", "0", ".", "0", " ", " ", " ", "-", "9", "9",
          "\n">>,
      LayerRow15 |->
         <<" ", " ", " ", " ", "1", "5", " ", " ", " ", " ", "A", " ", " ", "0", ".", "1", "2",
          "0", " ", "0", ".", "2", "2", "0", " ", "0", ".", "4", "1", "0", " ", "0", ".", "8",
          "0", "0", " ", " ", "1", ".", "5", "0", " ", " ", "1", ".", "3", "5", " ", " ", "0",
          ".", "7", "0", " ", " ", "3", "0", ".", "0", " ", " ", "3", "0", ".", "0", " ", " ",
          " ", "0", ".", "0", " ", "0", ".", "1", "0", "0", " ", " ", " ", "6", ".", "5", " ",
          " ", " ", "-", "9", "9", " ", " ", "2", "0", ".", "0", " ", " ", " ", "-", "9", "9",
          "\n">>,
      GeneralHeaderShort |->
         <<"@", " ", "S", "C", "O", "M", " ", " ", "S", "A", "L", "B", "\n">>,
      GeneralRowShort |->
         <<" ", " ", " ", " ", "B", "N", " ", " ", "0", ".", "1", "3", "\n">>,
      Tier1HeaderShort |->
         <<"@", " ", " ", "S", "L", "B", " ", " ", " ", "S", "L", "L", "L", " ", " ", "S", "D",
          "U", "L", "\n">>,
      LayerRowShort5 |->
         <<" ", " ", " ", " ", " ", "5", " ", " ", "0", ".", "1", "0", "0", " ", "0", ".", "2",
          "0", "0", "\n">>,
      LayerRowShort15 |->
         <<" ", " ", " ", " ", "1", "5", " ", " ", "0", ".", "1", "2", "0", " ", "0", ".", "2",
          "2", "0", " ", "!", " ", "s", "u", "b", "s", "o", "i", "l", "\n">>,
      CommentLine |->
         <<"!", " ", "e", "d", "i", "t", "e", "d", " ", "b", "y", " ", "h", "a", "n", "d", "\n">>,
      BlankLine |->
         <<"\n">>,
      FullRow5 |->
         <<" ", " ", " ", " ", " ", "5", " ", " ", " ", " ", "A", " ", " ", "0", ".", "1", "0",
          "0", " ", "0", ".", "2", "0", "0", " ", "0", ".", "4", "0", "0", " ", "1", ".", "0",
          "0", "0", " ", " ", "1", ".", "5", "0", " ", " ", "1", ".", "3", "0", " ", " ", "0",
          ".", "9", "0", " ", " ", "3", "0", ".", "0", " ", " ", "3", "0", ".", "0", " ", " ",
          " ", "0", ".", "0", " ", "0", ".", "1", "0", "0", " ", " ", " ", "6", ".", "5", " ",
          " ", " ", "6", ".", "0", " ", " ", "2", "0", ".", "0", " ", " ", "0", ".", "5", "0",
          "\n">>,
      FullRow15 |->
         <<" ", " ", " ", " ", "1", "5", " ", " ", " ", " ", "A", " ", " ", "0", ".", "1", "2",
          "0", " ", "0", ".", "2", "2", "0", " ", "0", ".", "4", "1", "0", " ", "0", ".", "8",
          "0", "0", " ", " ", "1", ".", "5", "0", " ", " ", "1", ".", "3", "5", " ", " ", "0",
          ".", "7", "0", " ", " ", "3", "0", ".", "0", " ", " ", "3", "0", ".", "0", " ", " ",
          " ", "0", ".", "0", " ", "0", ".", "1", "0", "0", " ", " ", " ", "6", ".", "5", " ",
          " ", " ", "6", ".", "0", " ", " ", "2", "0", ".", "0", " ", " ", "0", ".", "5", "0",
          "\n">>,
      Tier3Header |->
         <<"@", " ", " ", "S", "L", "B", " ", "A", "L", "F", "V", "G", " ", " ", " ", "M", "V",
          "G", " ", " ", " ", "N", "V", "G", " ", "W", "C", "R", "E", "S", "\n">>,
      Tier3Row5 |->
         <<" ", " ", " ", " ", " ", "5", " ", "0", ".", "0", "1", "0", " ", "0", ".", "3", "3",
          "3", " ", "1", ".", "5", "0", "0", " ", "0", ".", "0", "5", "0", "\n">>,
      Tier3Row15 |->
         <<" ", " ", " ", " ", "1", "5", " ", "0", ".", "0", "2", "0", " ", "0", ".", "2", "0",
          "0", " ", "1", ".", "2", "5", "0", " ", "0", ".", "0", "6", "0", "\n">>,
      Tier3Row15x |->
         <<" ", " ", " ", " ", "1", "5", " ", "0", ".", "0", "2", "0", " ", "0", ".", "2", "5",
          "0", " ", "1", ".", "2", "5", "0", " ", "0", ".", "0", "6", "0", "\n">>]

\* record SA01 with every field and record SB02 with a few, and the same
\* with a short, commented record SA01; a blank line ends each record
SoilFileChoices ==
    { Join(<<SoilLine.MarkerA, SoilLine.SiteHeader, SoilLine.SiteRow, SoilLine.GeneralHeader,
     SoilLine.GeneralRow,
             SoilLine.Tier1Header, SoilLine.LayerRow5, SoilLine.LayerRow15, SoilLine.BlankLine,
             SoilLine.MarkerB, SoilLine.SiteHeader, SoilLine.SiteRow,
              SoilLine.GeneralHeaderShort, SoilLine.GeneralRowShort,
             SoilLine.Tier1HeaderShort, SoilLine.LayerRowShort5>>),
      Join(<<SoilLine.MarkerA, SoilLine.SiteHeader, SoilLine.SiteRow,
       SoilLine.GeneralHeaderShort, SoilLine.GeneralRowShort,
             SoilLine.CommentLine, SoilLine.Tier1HeaderShort, SoilLine.LayerRowShort5,
              SoilLine.LayerRowShort15, SoilLine.BlankLine,
             SoilLine.MarkerB, SoilLine.SiteHeader, SoilLine.SiteRow,
              SoilLine.GeneralHeaderShort, SoilLine.GeneralRowShort,
             SoilLine.Tier1HeaderShort, SoilLine.LayerRowShort5, SoilLine.BlankLine>>) }

Call(soil_id, names, values) ==
    [soil_id |-> soil_id, param_name_list |-> names, param_values_list |-> values]

\* the calls of the two processes: each on its own record
CallChoices(p) ==
    IF p = 1
    THEN { Call(Label.SA01, <<Label.SLLL>>, << <<FloatVal(300), FloatVal(350)>> >>),
           Call(Label.SA01, <<Label.SALB, Label.XXXX>>, << <<FloatVal(200)>>,
            <<FloatVal(1000)>> >>) }
    ELSE { Call(Label.SB02, <<Label.SLLL>>, << <<FloatVal(400)>> >>),
           Call(Label.SB02, <<Label.SDUL, Label.SALB>>, << <<FloatVal(500)>>, <<FloatVal(90)>> >>) }

\* update_soil_layer_param from its entry to its call of
\* update_soil_profile: read_soil_profile, fix_missing_soil_param, the
\* parameter loop and create_soil_profile; an exception ends the call
USLP_Read(p) ==
    /\ pc[p] = "start"
    /\ \E r \in {NewProfile(fsoil, args[p].soil_id, args[p].param_name_list,
                            args[p].param_values_list)} :
           /\ pc' = [pc EXCEPT ![p] = IF r.raised THEN "raised" ELSE "update"]
           /\ old_soil_profile' = [old_soil_profile EXCEPT ![p] = r.old]
           /\ new_soil_profile' = [new_soil_profile EXCEPT ![p] = r.new]
    /\ UNCHANGED <<fsoil, fsoil0, args, soil_text, observed>>
    /\ UNCHANGED <<batchVars, culVars, cumVars, fmtVars, runVars, outVars, effVars, fixVars, readVars, dirVars, chunkVars, secVars>>

\* C6: two update_soil_layer_param calls on one file are unprotected: each
\* writes the whole file from its own read, without a lock.  When both have
\* returned, the file is the whole-file text of the call that wrote last,
\* followed by what the other call's longer write left beyond its end when
\* both had opened the file before either wrote.
C6_LastWriterWins ==
    (\A p \in Procs : pc[p] = "done") =>
        \E p, q \in Procs :
            /\ p # q
            /\ fsoil \in {soil_text[p],
                         soil_text[p] \o SliceFrom(soil_text[q], Len(soil_text[p]))}

\* a lost update: both calls have returned, each had a change to make, and
\* the file holds the new record of call 2 next to the unchanged old record
\* of call 1
C6_Witness ==
    /\ \A p \in Procs : pc[p] = "done"
    /\ \A p \in Procs : new_soil_profile[p] # old_soil_profile[p]
    /\ Contains(fsoil, new_soil_profile[2])
    /\ Contains(fsoil, old_soil_profile[1])
    /\ ~Contains(fsoil, new_soil_profile[1])

\* the lines of the experiment file that are treatment rows: those after the
\* first '@N R O C TNAME...' line, up to the first line that starts with a
\* line break
TreatmentLines(lines) ==
    LET headers == {i \in 1..Len(lines) : StartsWith(lines[i], TreatmentHeader)}
        first == CHOOSE i \in headers : \A j \in headers : i <= j
        rows == IF headers = {} THEN {}
                ELSE {i \in (first + 1)..Len(lines) :
                        /\ i \notin headers
                        /\ \A m \in (first + 1)..i : ~StartsWith(lines[m], <<"\n">>)}
    IN  SelectSeq([i \in 1..Len(lines) |-> IF i \in rows THEN lines[i] ELSE <<>>],
                  LAMBDA line : line # <<>>)

\* C15: every data row of the batch file is the experiment file name
\* left-justified to 94 characters followed by five right-justified fields of
\* widths 5, 7, 7, 7, 7 that end where the header columns TRTNO, RP, SQ, OP,
\* CO end; the fields under TRTNO, SQ, OP and CO hold the treatment number,
\* the sequence, the operation and the carryover code of the treatment row
\* (its columns N, R, O, C, two characters each).
C15_RowLayout ==
    DSSBatchFile.exists =>
        LET header == ReadLines(DSSBatchFile.text)[3]
            body == SliceFrom(DSSBatchFile.text, Len(BatchHeader))
            lines == TreatmentLines(Fexp)
            Under(name, end) == Slice(header, end - Len(name), end) = name
        IN  /\ Under(<<"T", "R", "T", "N", "O">>, 99) /\ Under(<<"R", "P">>, 106)
            /\ Under(<<"S", "Q">>, 113) /\ Under(<<"O", "P">>, 120)
            /\ Under(<<"C", "O">>, 127)
            /\ Len(body) = 128 * Len(lines)
            /\ \A k \in 1..Len(lines) :
                  LET data == Slice(body, 128 * (k - 1), 128 * k)
                  IN  /\ Slice(data, 0, 94) = Ljust(ExpFile, 94)
                      /\ Slice(data, 94, 99) = Rjust(Slice(lines[k], 0, 2), 5)
                      /\ Slice(data, 99, 106) = Rjust(Strip(Slice(data, 99, 106)), 7)
                      /\ Slice(data, 106, 113) = Rjust(Slice(lines[k], 2, 4), 7)
                      /\ Slice(data, 113, 120) = Rjust(Slice(lines[k], 4, 6), 7)
                      /\ Slice(data, 120, 127) = Rjust(Slice(lines[k], 6, 8), 7)
                      /\ Slice(data, 127, 128) = <<"\n">>

\* a batch file written from an experiment file with the treatment rows
\* ' 1 1 2 3 IRR1' and ' 3 1 0 1 RAINFED', whose four codes differ
C15_Witness ==
    /\ DSSBatchFile.exists
    /\ TreatmentLines(Fexp) =
          <<TreatmentRow("1", "1", "2", "3", TNAME.IRR1),
            TreatmentRow("3", "1", "0", "1", TNAME.RAINFED)>>

MaxRunLines == 2

\* run_dssat has not been called
NotRunning ==
    [pc |-> "idle", ExpFilePath |-> <<>>, cwd |-> <<>>, proc |-> "none",
     returncode |-> 0, stderr |-> FALSE, result |-> "none"]

\* the values of ExpFilePath explored, as path components: the experiment
\* file in a directory tree, and in the current directory
RunPaths == { <<"C:", "DSSAT48", "Maize", "A.SQX">>, <<"A.SQX">> }

\* ExpFilePath.parent
Parent(path) == SubSeq(path, 1, Len(path) - 1)

\* subprocess.Popen(command, ..., cwd=cwd): the child is started in the
\* directory cwd; a cwd that is not a directory raises NotADirectoryError
\* before any process exists.  In the file system the call runs in,
\* ExpFilePath names a regular file (create_DSSBatch has opened and read
\* it) and every proper prefix of it a directory.
Popen(r, cwd) ==
    LET isdir == /\ Len(cwd) < Len(r.ExpFilePath)
                 /\ cwd = SubSeq(r.ExpFilePath, 1, Len(cwd))
    IN  IF isdir
        THEN [r EXCEPT !.pc = "running", !.cwd = cwd, !.proc = "running"]
        ELSE [r EXCEPT !.pc = "raised", !.cwd = cwd, !.result = "NotADirectoryError"]

\* One step of run_dssat(ExpFilePath, DSSAT_dir, selected_treatments):
\* create_DSSBatch opens the batch file for writing, writes batch_text and
\* closes it; then Popen(command, cwd=ExpFilePath); then communicate() waits
\* for the process, whatever its return code and stderr, and None is returned
run_dssat ==
    /\ run.pc \in {"called", "opened", "written", "running"}
    /\ CASE run.pc = "called" ->
              /\ DSSBatchFile' = FileWith(<<>>)
              /\ run' = [run EXCEPT !.pc = "opened"]
         [] run.pc = "opened" ->
              /\ DSSBatchFile' =
                    FileWith(BatchText(ScanTreatments(Fexp, 1, 0, selected_treatments, <<>>)))
              /\ run' = [run EXCEPT !.pc = "written"]
         [] run.pc = "written" ->
              /\ run' = Popen(run, run.ExpFilePath)
              /\ UNCHANGED DSSBatchFile
         [] OTHER ->
              /\ \E returncode \in {0, 1}, stderr \in BOOLEAN :
                    run' = [run EXCEPT !.pc = "returned", !.proc = "terminated",
                                       !.returncode = returncode, !.stderr = stderr,
                                       !.result = "None"]
              /\ UNCHANGED DSSBatchFile
    /\ UNCHANGED <<Fexp, selected_treatments>>
    /\ UNCHANGED <<culVars, cumVars, fmtVars, soilVars, outVars, effVars, fixVars, readVars, dirVars, chunkVars, secVars>>

\* C12: run_dssat launches the executable with the directory of the
\* experiment file, the parent of ExpFilePath, as its working directory.
C12_CwdIsExpDir ==
    run.pc \in {"running", "returned", "raised"} => run.cwd = Parent(run.ExpFilePath)

RECURSIVE FindAll(_, _, _)
FindAll(text, pat, from) ==
    CHOOSE out \in
        { IF k < 0 THEN <<>> ELSE <<k>> \o FindAll(text, pat, k + Len(pat)) :
          k \in {Find(text, pat, from)} } : TRUE

\* list(get_dataChunk_indices(text, Tfile)): the (begin, end) offsets of the
\* data chunks; the [-1] of an empty list of line ends raises IndexError
get_dataChunk_indices(text, Tfile) ==
    CHOOSE out \in
        { IF lines = <<>> THEN Raised
          ELSE CHOOSE o \in
              { Returned([k \in 1..Min(Len(dataBegin_idx), Cardinality(ended) + 1) |->
                            <<dataBegin_idx[k],
                              IF k \in ended
                              THEN CHOOSE nl \in after[k] : \A x \in after[k] : nl <= x
                              ELSE lines[Len(lines)]>>]) :
                ended \in {{k \in 1..Len(dataBegin_idx) : after[k] # {}}} } : TRUE :
          lines \in {FindAll(text, <<"\n">>, 0)},
          dataBegin_idx \in {FindAll(text, <<"\n", "@">>, 0)},
          after \in { [k \in 1..Len(db) |-> {nl[i] : i \in {j \in 1..Len(nl) : nl[j] > db[k]}}] :
                      db \in {FindAll(text, <<"\n", "@">>, 0)},
                      nl \in { IF Tfile
                               THEN [k \in 1..Len(b) |-> b[k] - 1]
                               ELSE FindAll(text, <<"\n", "\n">>, 0) :
                               b \in {FindAll(text, <<"\n", "@">>, 0)} } } } : TRUE

\* get_treatNums(text): int(text[idx+9:idx+15].strip()) for every occurrence
\* of the word TREATMENT; int raises ValueError for anything but an integer
get_treatNums(text) ==
    CHOOSE out \in
        { IF \E k \in 1..Len(words) : ~IntLiteral(words[k]) THEN Raised
          ELSE Returned([k \in 1..Len(words) |-> StrToInt(words[k])]) :
          words \in { [k \in 1..Len(treat_idx) |->
                         Strip(Slice(text, treat_idx[k] + 9, treat_idx[k] + 15))] :
                      treat_idx \in {FindAll(text, <<"T", "R", "E", "A", "T", "M", "E", "N", "T">>, 0)} } } : TRUE

\* One data frame of Read_DSSAT_Output: the words of the non-empty lines of
\* lines[beg:end]; the first line gives the columns, the others the records;
\* astype(float32) raises ValueError for a word that is not a number
ChunkFrame(text, chunk) ==
    CHOOSE out \in
        { IF data = <<>> THEN RaisedFrame
          ELSE IF \E i \in 2..Len(data) : \E j \in 1..Len(data[i]) :
                     ~FloatLiteral(data[i][j])
          THEN RaisedFrame
          ELSE DataFrame([i \in 1..(Len(data) - 1) |->
                             [j \in 1..Len(data[i + 1]) |-> StrToFloat(data[i + 1][j])]],
                         data[1]) :
          data \in { [i \in 1..Len(kept) |-> Split(Strip(kept[i]))] :
                     kept \in { SelectSeq([i \in 1..Len(split) |->
                                             IF split[i] # <<>> /\ split[i][Len(split[i])] = "\n"
                                             THEN SubSeq(split[i], 1, Len(split[i]) - 1)
                                             ELSE split[i]],
                                          LAMBDA line : line # <<>>) :
                                split \in {ReadLines(Slice(text, chunk[1], chunk[2]))} } } } : TRUE

\* Read_DSSAT_Output(filePath) for a file holding text whose name has no
\* 'Plant' in it: the data frames and treatNums
Read_DSSAT_Output(text) ==
    CHOOSE out \in
        { IF treatNums.raised \/ chunks.raised
          THEN [raised |-> TRUE, df_gen |-> <<>>, treatNums |-> <<>>]
          ELSE [raised |-> FALSE,
                df_gen |-> [k \in 1..Len(chunks.value) |-> ChunkFrame(text, chunks.value[k])],
                treatNums |-> treatNums.value] :
          treatNums \in {get_treatNums(text)},
          chunks \in {get_dataChunk_indices(text, FALSE)} } : TRUE

\* rData[prm] of extract_required_dssat_outputs for one run: the values of
\* the column (thousandths in the files of the model), converted to daily
\* values when asked to; not-a-number for every date when the run's table
\* has no such column
ColumnValuesKeyError(dssat_outputs, prm, cum_param_list, daily) ==
    IF ~HasColumn(dssat_outputs, prm) THEN Raised
    ELSE Returned([i \in 1..Len(dssat_outputs.rows) |->
                     dssat_outputs.rows[i][ColumnIndex(dssat_outputs, prm)]])

ColumnValues(dssat_outputs, prm, cum_param_list, daily) ==
    IF ~HasColumn(dssat_outputs, prm)
    THEN Returned([i \in 1..Len(dssat_outputs.rows) |-> NaN])
    ELSE CHOOSE out \in
        { IF daily /\ InList(prm, cum_param_list)
          THEN IF column = <<>> THEN Raised
               ELSE Returned([i \in 1..Len(column) |->
                                FloatVal(cum2daily([k \in 1..Len(column) |->
                                                      column[k].num]).value[i])])
          ELSE Returned(column) :
          column \in { [i \in 1..Len(dssat_outputs.rows) |-> dssat_outputs.rows[i][c]] :
                       c \in {ColumnIndex(dssat_outputs, prm)} } } : TRUE

\* The rows extract_required_dssat_outputs makes of the r-th data frame:
\* the values of paramList, indexed by treatNums[r] and the date of @YEAR and
\* DOY.  A missing @YEAR or DOY column (KeyError), a year or day that is not
\* a number or that strptime('%Y%j') rejects, and, for a frame with rows, an
\* r beyond treatNums (IndexError) raise.
RunRows(dssat_outputs, r, treatNums, paramList, cum_param_list, daily) ==
    IF dssat_outputs.raised \/ ~HasColumn(dssat_outputs, <<"@", "Y", "E", "A", "R">>)
       \/ ~HasColumn(dssat_outputs, <<"D", "O", "Y">>)
       \/ (dssat_outputs.rows # <<>> /\ r > Len(treatNums))
    THEN Raised
    ELSE CHOOSE out \in
        { IF \/ \E i \in 1..Len(dates) :
                   \/ dates[i][1].kind = "nan" \/ dates[i][2].kind = "nan"
                   \/ IntOf(dates[i][1]) \notin 1000..9999
                   \/ IntOf(dates[i][2]) \notin 1..366
             \/ \E p \in 1..Len(rData) : rData[p].raised
          THEN Raised
          ELSE Returned([i \in 1..Len(dates) |->
                           [TRNO |-> treatNums[r],
                            DATE |-> <<IntOf(dates[i][1]), IntOf(dates[i][2])>>,
                            values |-> [p \in 1..Len(rData) |-> rData[p].value[i]]]]) :
          dates \in { [i \in 1..Len(dssat_outputs.rows) |->
                         <<Loc(dssat_outputs, i - 1, <<"@", "Y", "E", "A", "R">>),
                           Loc(dssat_outputs, i - 1, <<"D", "O", "Y">>)>>] },
          rData \in { [p \in 1..Len(paramList) |->
                         ColumnValues(dssat_outputs, paramList[p], cum_param_list, daily)] }
        } : TRUE

\* extract_required_dssat_outputs(filePath, paramList, cum_param_list, daily)
\* for a paramList of distinct names: the columns and the rows of the table
\* returned; pd.concat of an empty list raises ValueError
extract_required_dssat_outputs(text, paramList, cum_param_list, daily) ==
    CHOOSE out \in
        { IF read.raised \/ read.df_gen = <<>> THEN Raised
          ELSE CHOOSE o \in
              { IF \E r \in 1..Len(df_list) : df_list[r].raised THEN Raised
                ELSE Returned([columns |-> paramList,
                               rows |-> Join([r \in 1..Len(df_list) |-> df_list[r].value])]) :
                df_list \in { [r \in 1..Len(read.df_gen) |->
                                 RunRows(read.df_gen[r], r, read.treatNums, paramList,
                                         cum_param_list, daily)] } } : TRUE :
          read \in {Read_DSSAT_Output(text)} } : TRUE

\* the lines of the output files of the model: the title and the TREATMENT
\* line of two runs, a title that has the word TREATMENT in it, and the
\* lines of two daily tables, one with the column ETAC and one with SWXD
OutLine ==
    [ RUN1 |->
         <<"*", "R", "U", "N", " ", " ", " ", "1", " ", " ", " ", " ", " ", " ", " ",
           " ", ":", " ", "I", "R", "R", "1", "\n">>,
      RUN2 |->
         <<"*", "R", "U", "N", " ", " ", " ", "2", " ", " ", " ", " ", " ", " ", " ",
           " ", ":", " ", "R", "A", "I", "N", "F", "E", "D", "\n">>,
      TREATMENT1 |->
         <<" ", "T", "R", "E", "A", "T", "M", "E", "N", "T", " ", " ", "1", " ", " ",
           " ", ":", " ", "I", "R", "R", "1", "\n">>,
      TREATMENT2 |->
         <<" ", "T", "R", "E", "A", "T", "M", "E", "N", "T", " ", " ", "2", " ", " ",
           " ", ":", " ", "R", "A", "I", "N", "F", "E", "D", "\n">>,
      TITLE |->
         <<" ", "E", "X", "P", "E", "R", "I", "M", "E", "N", "T", " ", " ", " ", " ",
           " ", ":", " ", "T", "R", "E", "A", "T", "M", "E", "N", "T", " ", " ", "7",
           " ", " ", " ", "N", "\n">>,
      ETAC_Header |->
         <<"@", "Y", "E", "A", "R", " ", "D", "O", "Y", " ", "E", "T", "A", "C", "\n">>,
      ETAC_Row1 |->
         <<" ", "2", "0", "2", "0", " ", "0", "0", "1", " ", "5", ".", "0", "\n">>,
      ETAC_Row2 |->
         <<" ", "2", "0", "2", "0", " ", "0", "0", "2", " ", "7", ".", "0", "\n">>,
      SWXD_Header |->
         <<"@", "Y", "E", "A", "R", " ", "D", "O", "Y", " ", "S", "W", "X", "D", "\n">>,
      SWXD_Row1 |->
         <<" ", "2", "0", "2", "0", " ", "0", "0", "1", " ", "3", ".", "5", "\n">>,
      Blank |->
         <<"\n">> ]

OutParam == [ETAC |-> <<"E", "T", "A", "C">>, SWXD |-> <<"S", "W", "X", "D">>]

\* the greatest number of '@' tables of one run
MaxTables == 2

\* the lines of a table with the column prm
TableText(prm) ==
    IF prm = OutParam.ETAC
    THEN OutLine.ETAC_Header \o OutLine.ETAC_Row1 \o OutLine.ETAC_Row2
    ELSE OutLine.SWXD_Header \o OutLine.SWXD_Row1

\* the text of an output file: for each run its title, its TREATMENT line,
\* its tables, each after an empty line, and an empty line
ReportText(runs) ==
    Join([r \in 1..Len(runs) |->
            (IF r = 1 THEN OutLine.RUN1 \o OutLine.TREATMENT1
             ELSE OutLine.RUN2 \o OutLine.TREATMENT2)
            \o (IF runs[r].title THEN OutLine.TITLE ELSE <<>>)
            \o Join([k \in 1..Len(runs[r].tables) |->
                       OutLine.Blank \o TableText(runs[r].tables[k])])
            \o OutLine.Blank])

\* the runs of the output files: with or without the second occurrence of
\* TREATMENT, and with up to MaxTables tables
RunChoices ==
    { [title |-> t, tables |-> tables] :
      t \in BOOLEAN, tables \in BoundedSeqs({OutParam.ETAC, OutParam.SWXD}, MaxTables) }

extract_call ==
    /\ ~outResult.called
    /\ outResult' = extract_required_dssat_outputs(filePath, outArgs.paramList,
                                                   outArgs.cum_param_list, outArgs.daily)
    /\ UNCHANGED <<filePath, written, outArgs>>
    /\ UNCHANGED <<batchVars, culVars, cumVars, fmtVars, soilVars, runVars, effVars, fixVars, readVars, dirVars, chunkVars, secVars>>

\* for every row of the tables of the file, in the order of the file: the
\* run it belongs to and the column of its table
RowsWritten(runs) ==
    Join([r \in 1..Len(runs) |->
            Join([k \in 1..Len(runs[r].tables) |->
                    [i \in 1..(IF runs[r].tables[k] = OutParam.ETAC THEN 2 ELSE 1) |->
                        [run |-> r, column |-> runs[r].tables[k]]]])])

\* the number of occurrences of the word TREATMENT in the file
TreatmentWords(runs) ==
    Len(runs) + Cardinality({r \in 1..Len(runs) : runs[r].title})

\* C16: extract_required_dssat_outputs returns exactly the columns of
\* paramList; a parameter whose column a run's table does not have is
\* not-a-number in every row of that run and has its value in the others; no
\* row is dropped, and the call raises only for a file with no table or with
\* more tables than occurrences of TREATMENT, never for an absent column
C16_AbsentColumnIsNaN ==
    outResult.called =>
        LET rows == RowsWritten(written)
        IN  IF outResult.raised
            THEN rows = <<>> \/ Len(Join([r \in 1..Len(written) |-> written[r].tables]))
                                  > TreatmentWords(written)
            ELSE /\ outResult.value.columns = outArgs.paramList
                 /\ Len(outResult.value.rows) = Len(rows)
                 /\ \A i \in 1..Len(rows) : \A p \in 1..Len(outArgs.paramList) :
                        (outResult.value.rows[i].values[p] = NaN)
                            <=> (outArgs.paramList[p] # rows[i].column)

\* C16 witness: a file whose first run has the ETAC table and whose second
\* run has the SWXD table, read for both parameters
C16_Witness ==
    /\ outResult.called /\ ~outResult.raised
    /\ outArgs.paramList = <<OutParam.ETAC, OutParam.SWXD>>
    /\ [r \in 1..Len(written) |-> written[r].tables]
           = <<(<<OutParam.ETAC>>), (<<OutParam.SWXD>>)>>
    /\ outResult.value.rows[1].values[2] = NaN
    /\ outResult.value.rows[3].values[1] = NaN

\* C17: every row of the result is indexed by the treatment number of the
\* run whose block holds the row's table
C17_RowsIndexedByOwnRun ==
    (outResult.called /\ ~outResult.raised) =>
        [i \in 1..Len(outResult.value.rows) |-> outResult.value.rows[i].TRNO]
            = [i \in 1..Len(RowsWritten(written)) |-> RowsWritten(written)[i].run]

\* ------------------------------------------------------------------------
\* util_read_dssat_out.py: SoilWatBal
\* ------------------------------------------------------------------------

\* the keys of WatBalData
WatBalKeys ==
    [ Run |->
         <<"R", "u", "n">>,
      TreatmentName |->
         <<"T", "r", "e", "a", "t", "m", "e", "n", "t", " ", "N", "a", "m", "e">>,
      PlantingDates |->
         <<"P", "l", "a", "n", "t", "i", "n", "g", " ", "D", "a", "t", "e", "s">>,
      HarvestingDates |->
         <<"H", "a", "r", "v", "e", "s", "t", "i", "n", "g", " ", "D", "a", "t", "e",
           "s">>,
      SoilWaterStart |->
         <<"S", "o", "i", "l", " ", "W", "a", "t", "e", "r", " ", "(", "S", "t", "a",
           "r", "t", ")">>,
      SoilWaterFinal |->
         <<"S", "o", "i", "l", " ", "W", "a", "t", "e", "r", " ", "(", "F", "i", "n",
           "a", "l", ")">>,
      Precipitation |->
         <<"P", "r", "e", "c", "i", "p", "i", "t", "a", "t", "i", "o", "n">>,
      Drainage |->
         <<"D", "r", "a", "i", "n", "a", "g", "e">>,
      TiledrainFlow |->
         <<"T", "i", "l", "e", "d", "r", "a", "i", "n", " ", "f", "l", "o", "w">>,
      Runoff |->
         <<"R", "u", "n", "o", "f", "f">>,
      Evapotranspiration |->
         <<"E", "v", "a", "p", "o", "t", "r", "a", "n", "s", "p", "i", "r", "a", "t",
           "i", "o", "n">> ]

\* the words SoilWatBal looks for in a line and the default of RunEnd
WatBalWords ==
    [ RUN |->
         <<"*", "R", "U", "N">>,
      Start |->
         <<"!", " ", " ", " ", " ", " ", "S", "o", "i", "l", " ", "H", "2", "0", " ",
           "(", "s", "t", "a", "r", "t", ")">>,
      Final |->
         <<"!", " ", " ", " ", " ", " ", "F", "i", "n", "a", "l", " ", "B", "a", "l",
           "a", "n", "c", "e">>,
      start |->
         <<"s", "t", "a", "r", "t">>,
      final |->
         <<"f", "i", "n", "a", "l">>,
      Evaporation |->
         <<"E", "v", "a", "p", "o", "r", "a", "t", "i", "o", "n">>,
      Transpiration |->
         <<"T", "r", "a", "n", "s", "p", "i", "r", "a", "t", "i", "o", "n">>,
      last |->
         <<"l", "a", "s", "t">> ]

\* WatBalData, param and evapotranspiration (bound to a value or not yet)
\* before the first line is read
WatBalStart ==
    [raised |-> FALSE, param |-> 0, bound |-> FALSE, evapotranspiration |-> 0,
     WatBalData |-> [f \in DOMAIN WatBalKeys |-> <<>>]]

\* The body of the loop over the lines of SoilWatBal.OUT for one line: the
\* four tests in their order.  Numbers are thousandths; dates are the year
\* and the day of the year that strptime('%Y/%j') reads.  Raising is:
\* unpacking line.split(':') of other than two parts, float of what is not a
\* number, strptime of what is not a date, evapotranspiration read before a
\* *RUN line has bound it.
SoilWatBalLine(st, line) ==
    LET key == Strip(Slice(line, 6, Max(0, Len(line) - 8)))
        val == Strip(SliceFrom(line, Max(0, Len(line) - 8)))
        Failed == [st EXCEPT !.raised = TRUE]
        KeyFields == {f \in DOMAIN WatBalKeys : WatBalKeys[f] = key}
        Put(t, f, v) == [t EXCEPT !.WatBalData[f] = Append(@, v)]
        colon == CHOOSE i \in 1..Len(line) : line[i] = ":"
        Tname == Split(SliceFrom(line, colon))
        word == Split(key)[Len(Split(key))]
        IsDate == /\ Len(word) \in 6..8
                  /\ AllDigits(SubSeq(word, 1, 4)) /\ word[5] = "/"
                  /\ AllDigits(SubSeq(word, 6, Len(word)))
                  /\ DigitsValue(SubSeq(word, 1, 4)) >= 1
                  /\ DigitsValue(SubSeq(word, 6, Len(word))) \in 1..366
        Date == <<DigitsValue(SubSeq(word, 1, 4)), DigitsValue(SubSeq(word, 6, Len(word)))>>
        Titled(t) ==
            IF ~StartsWith(line, WatBalWords.RUN) THEN t
            ELSE IF Cardinality({i \in 1..Len(line) : line[i] = ":"}) # 1 THEN Failed
            ELSE [Put(Put(t, "Run",
                          Split(SliceFrom(Strip(SubSeq(line, 1, colon - 1)), 1))
                              [Len(Split(SliceFrom(Strip(SubSeq(line, 1, colon - 1)), 1)))]),
                      "TreatmentName",
                      Join([k \in 1..(Len(Tname) - 3) |->
                              IF k = 1 THEN Tname[k] ELSE <<" ">> \o Tname[k]]))
                  EXCEPT !.bound = TRUE, !.evapotranspiration = 0]
        Opened(t) ==
            IF t.raised \/ ~StartsWith(line, WatBalWords.Start) THEN t
            ELSE [t EXCEPT !.param = 1]
        Closed(t) ==
            IF t.raised \/ ~StartsWith(line, WatBalWords.Final) THEN t
            ELSE IF KeyFields = {} THEN [t EXCEPT !.param = 0]
            ELSE IF ~FloatLiteral(val) THEN Failed
            ELSE [Put(t, CHOOSE f \in KeyFields : TRUE, StrToFloat(val)) EXCEPT !.param = 0]
        Inside(t) ==
            IF t.raised \/ t.param # 1 THEN t
            ELSE IF Contains(key, WatBalWords.start)
                 THEN IF ~IsDate \/ ~FloatLiteral(val) THEN Failed
                      ELSE Put(Put(t, "PlantingDates", Date), "SoilWaterStart", StrToFloat(val))
            ELSE IF Contains(key, WatBalWords.final)
                 THEN IF ~IsDate \/ ~FloatLiteral(val) THEN Failed
                      ELSE Put(Put(t, "HarvestingDates", Date), "SoilWaterFinal", StrToFloat(val))
            ELSE IF KeyFields # {}
                 THEN IF ~FloatLiteral(val) THEN Failed
                      ELSE Put(t, CHOOSE f \in KeyFields : TRUE, FloatVal(0 - StrToFloat(val).num))
            ELSE IF Contains(key, WatBalWords.Evaporation)
                 THEN IF ~t.bound \/ ~FloatLiteral(val) THEN Failed
                      ELSE [t EXCEPT !.evapotranspiration = @ + StrToFloat(val).num]
            ELSE IF Contains(key, WatBalWords.Transpiration)
                 THEN IF ~t.bound \/ ~FloatLiteral(val) THEN Failed
                      ELSE [Put(t, "Evapotranspiration",
                                FloatVal(0 - (t.evapotranspiration + StrToFloat(val).num)))
                            EXCEPT !.evapotranspiration = @ + StrToFloat(val).num]
            ELSE t
    IN  Inside(Closed(Opened(Titled(st))))

\* the loop with param left at 1 whatever the lines read
RECURSIVE SoilWatBalScanOpen(_, _, _)
SoilWatBalScanOpen(lines, k, st) ==
    IF k > Len(lines) \/ st.raised THEN st
    ELSE CHOOSE out \in
        { SoilWatBalScanOpen(lines, k + 1, [next EXCEPT !.param = 1]) :
          next \in {SoilWatBalLine([st EXCEPT !.param = 1], lines[k])} } : TRUE

\* WatBalData after the loop has read the lines from the k-th on
RECURSIVE SoilWatBalScan(_, _, _)
SoilWatBalScan(lines, k, st) ==
    IF k > Len(lines) \/ st.raised THEN st
    ELSE CHOOSE out \in
        { SoilWatBalScan(lines, k + 1, next) : next \in {SoilWatBalLine(st, lines[k])} } : TRUE

\* SoilWatBal(fileDir, RunStart, RunEnd) for a SoilWatBal.OUT holding text,
\* RunStart >= 1 and RunEnd 'last' or >= 0: the rows of the table returned.
\* pd.DataFrame raises ValueError for columns of different lengths.
SoilWatBal(text, RunStart, RunEnd) ==
    CHOOSE out \in
        { IF st.raised \/ \E f \in DOMAIN WatBalKeys :
                              Len(st.WatBalData[f]) # Len(st.WatBalData.Run)
          THEN Raised
          ELSE Returned(
              SubSeq([r \in 1..Len(st.WatBalData.Run) |->
                        ( [f \in DOMAIN WatBalKeys |->
                             IF f = "Precipitation"
                             THEN FloatVal(0 - st.WatBalData[f][r].num)
                             ELSE st.WatBalData[f][r]]
                          @@ [SoilWaterLost |->
                                 FloatVal(st.WatBalData.SoilWaterStart[r].num
                                          - st.WatBalData.SoilWaterFinal[r].num)] )],
                     RunStart,
                     IF RunEnd = StrVal(WatBalWords.last) THEN Len(st.WatBalData.Run)
                     ELSE Min(RunEnd.num, Len(st.WatBalData.Run)))) :
          st \in {SoilWatBalScan(ReadLines(text), 1, WatBalStart)} } : TRUE

\* the lines of the SoilWatBal.OUT files of the model: the titles of the
\* runs, the names of the quantities that are not keys of WatBalData, and
\* the six characters before a name
WatBalLine ==
    [ Title1 |->
         <<"*", "R", "U", "N", " ", " ", " ", "1", " ", " ", " ", " ", " ", " ", " ",
           " ", ":", " ", "I", "R", "R", "1", " ", "M", "Z", "C", "E", "R", "0", "4",
           "8", " ", "-", " ", "M", "a", "i", "z", "e", "\n">>,
      Title2 |->
         <<"*", "R", "U", "N", " ", " ", " ", "2", " ", " ", " ", " ", " ", " ", " ",
           " ", ":", " ", "R", "A", "I", "N", "F", "E", "D", " ", "M", "Z", "C", "E",
           "R", "0", "4", "8", " ", "-", " ", "M", "a", "i", "z", "e", "\n">>,
      Title3 |->
         <<"*", "R", "U", "N", " ", " ", " ", "3", " ", " ", " ", " ", " ", " ", " ",
           " ", ":", " ", "I", "R", "R", "2", " ", "M", "Z", "C", "E", "R", "0", "4",
           "8", " ", "-", " ", "M", "a", "i", "z", "e", "\n">>,
      H20Start |->
         <<"S", "o", "i", "l", " ", "H", "2", "0", " ", "(", "s", "t", "a", "r", "t",
           ")", " ", "o", "n", " ", "Y", "e", "a", "r", "/", "d", "a", "y", " ", "2",
           "0", "2", "0", "/", "1", "0", "0">>,
      H20Final |->
         <<"S", "o", "i", "l", " ", "H", "2", "0", " ", "(", "f", "i", "n", "a", "l",
           ")", " ", "o", "n", " ", "Y", "e", "a", "r", "/", "d", "a", "y", " ", "2",
           "0", "2", "0", "/", "2", "5", "0">>,
      Irrigation |->
         <<"E", "f", "f", "e", "c", "t", "i", "v", "e", " ", "I", "r", "r", "i", "g",
           "a", "t", "i", "o", "n">>,
      SoilEvaporation |->
         <<"S", "o", "i", "l", " ", "E", "v", "a", "p", "o", "r", "a", "t", "i", "o",
           "n">>,
      FinalBalance |->
         <<"F", "i", "n", "a", "l", " ", "B", "a", "l", "a", "n", "c", "e">>,
      Bang |->
         <<"!", " ", " ", " ", " ", " ">> ]

\* the greatest number of evaporation and transpiration lines of a balance
MaxBalLines == 3

\* the text of a SoilWatBal.OUT: for each run its title, then the lines of
\* its balance; in the r-th run every soil evaporation line has 100 + r
\* and every transpiration line 200 + r; evaporation names these lines in
\* their order.  A run with outside has a precipitation line of 5 before
\* the start line of its balance and a runoff line of 7 after the final
\* balance line.
BalanceText(runs) ==
    LET Line(key, val) ==
            WatBalLine.Bang \o Ljust(key, 38) \o Rjust(IntToStr(val) \o <<".", "0", "0">>, 10)
                \o <<"\n">>
        Water(r, name) ==
            IF name = "E" THEN Line(WatBalLine.SoilEvaporation, 100 + r)
            ELSE Line(WatBalWords.Transpiration, 200 + r)
    IN  Join([r \in 1..Len(runs) |->
                (CASE r = 1 -> WatBalLine.Title1 [] r = 2 -> WatBalLine.Title2
                   [] OTHER -> WatBalLine.Title3)
                \o (IF runs[r].outside THEN Line(WatBalKeys.Precipitation, 5) ELSE <<>>)
                \o Line(WatBalLine.H20Start, 250 + r) \o Line(WatBalLine.H20Final, 220 + r)
                \o Line(WatBalLine.Irrigation, 30) \o Line(WatBalKeys.Precipitation, 300 + r)
                \o Line(WatBalKeys.Drainage, 40 + r) \o Line(WatBalKeys.TiledrainFlow, 0)
                \o Line(WatBalKeys.Runoff, 20 + r)
                \o Join([k \in 1..Len(runs[r].evaporation) |-> Water(r, runs[r].evaporation[k])])
                \o Line(WatBalLine.FinalBalance, 0)
                \o (IF runs[r].outside THEN Line(WatBalKeys.Runoff, 7) ELSE <<>>)
                \o <<"\n">>])

\* the balances of the runs: soil evaporation (E) and transpiration (T)
\* lines in any number and order, with or without lines outside the balance
BalanceChoices ==
    { [evaporation |-> e, outside |-> o] :
      e \in BoundedSeqs({"E", "T"}, MaxBalLines), o \in BOOLEAN }

SoilWatBal_call ==
    /\ ~outResult.called
    /\ outResult' = SoilWatBal(filePath, outArgs.RunStart, outArgs.RunEnd)
    /\ UNCHANGED <<filePath, written, outArgs>>
    /\ UNCHANGED <<batchVars, culVars, cumVars, fmtVars, soilVars, runVars, effVars, fixVars, readVars, dirVars, chunkVars, secVars>>

\* C18: for a SoilWatBal.OUT whose every run has one transpiration line,
\* SoilWatBal returns one Evapotranspiration per run: minus the sum of the
\* evaporation lines and the transpiration line of that run's balance, in
\* whatever order these lines are
C18_EvapotranspirationPerRun ==
    (/\ outResult.called
     /\ \A r \in 1..Len(written) :
            Cardinality({k \in 1..Len(written[r].evaporation) :
                            written[r].evaporation[k] = "T"}) = 1)
        => /\ ~outResult.raised
           /\ \A r \in outArgs.RunStart..Len(written) :
                  (outArgs.RunEnd.kind = "str" \/ r <= outArgs.RunEnd.num) =>
                      /\ r - outArgs.RunStart + 1 <= Len(outResult.value)
                      /\ outResult.value[r - outArgs.RunStart + 1].Evapotranspiration =
                            FloatVal(0 - 1000 *
                                (200 + r
                                 + (100 + r) * Cardinality(
                                       {k \in 1..Len(written[r].evaporation) :
                                           written[r].evaporation[k] = "E"})))

\* every run of the file has one transpiration line
OneTranspirationLine ==
    \A r \in 1..Len(written) :
        Cardinality({k \in 1..Len(written[r].evaporation) :
                        written[r].evaporation[k] = "T"}) = 1

\* C28: SoilWatBal records quantities only inside a balance, from the line
\* starting with '!     Soil H20 (start)', itself processed, to the next
\* line starting with '!     Final Balance'; that line and the lines outside
\* add no entry.  After N runs with one transpiration line each every column
\* has N entries, so that the table is built, and the row of run r holds the
\* figures of the lines inside its balance: 250 + r from the start line,
\* 220 + r from the final line, 300 + r of precipitation, 40 + r of
\* drainage, 0 of tile drain flow and 20 + r of runoff, and nothing of the
\* precipitation and runoff lines outside.
C28_OnlyInsideBalance ==
    (outResult.called /\ OneTranspirationLine) =>
        /\ ~outResult.raised
        /\ Len(outResult.value) =
               (IF outArgs.RunEnd.kind = "str" \/ outArgs.RunEnd.num >= Len(written)
                THEN Len(written) ELSE outArgs.RunEnd.num) - Min(outArgs.RunStart - 1,
                   IF outArgs.RunEnd.kind = "str" \/ outArgs.RunEnd.num >= Len(written)
                   THEN Len(written) ELSE outArgs.RunEnd.num)
        /\ \A k \in 1..Len(outResult.value) :
               \E r \in {k + outArgs.RunStart - 1} :
                   /\ outResult.value[k].SoilWaterStart = FloatVal(1000 * (250 + r))
                   /\ outResult.value[k].SoilWaterFinal = FloatVal(1000 * (220 + r))
                   /\ outResult.value[k].Precipitation = FloatVal(1000 * (300 + r))
                   /\ outResult.value[k].Drainage = FloatVal(0 - 1000 * (40 + r))
                   /\ outResult.value[k].TiledrainFlow = FloatVal(0)
                   /\ outResult.value[k].Runoff = FloatVal(0 - 1000 * (20 + r))

\* two runs, each with lines outside its balance and an evaporation line
\* before its transpiration line, have given a table of two rows
C28_Witness ==
    /\ outResult.called
    /\ ~outResult.raised
    /\ Len(written) = 2
    /\ \A r \in 1..2 : written[r] = [evaporation |-> <<"E", "T">>, outside |-> TRUE]
    /\ Len(outResult.value) = 2

\* ------------------------------------------------------------------------
\* util_read_dssat_out.py: get_dataChunk_indices, called on its own
\* ------------------------------------------------------------------------

\* Bound: the number of data rows of a table of the texts explored
MaxChunkRows == 2

\* the texts: a first line or none, then one or two tables of a header line
\* and 1..MaxChunkRows data rows, with or without a blank line between the
\* tables, and nothing, a line break or a blank line after the last row
ChunkTextChoices ==
    LET Table(n, last) ==
            <<"@", "A", " ", "B">>
            \o Join([i \in 1..n |-> <<"\n", "1", " ", "2">>])
            \o last
    IN  { lead \o <<"\n">> \o first \o Table(n, last) :
          lead \in {<<>>, <<"*", "R", "U", "N">>},
          first \in {<<>>} \cup
                    { Table(m, between) : m \in 1..MaxChunkRows,
                                          between \in {<<"\n">>, <<"\n", "\n">>} },
          n \in 1..MaxChunkRows,
          last \in {<<>>, <<"\n">>, <<"\n", "\n">>} }

get_dataChunk_indices_call ==
    /\ ~chunkResult.called
    /\ chunkResult' = get_dataChunk_indices(chunkText, chunkTfile)
    /\ UNCHANGED <<chunkText, chunkTfile>>
    /\ UNCHANGED <<batchVars, culVars, cumVars, fmtVars, soilVars, runVars, outVars, effVars, fixVars, readVars, dirVars, secVars>>

\* the offsets of the '@' of the header lines that come after a line break
HeaderOffsets(text) ==
    {i \in 1..(Len(text) - 1) : text[i] = "\n" /\ text[i + 1] = "@"}

\* the offset after the last character of the last data row of the table
\* whose header starts at offset h: the rows end at a blank line, at the
\* next header line or at the end of the text
TableEnd(text, h) ==
    CHOOSE q \in h..Len(text) :
        /\ \/ q = Len(text)
           \/ /\ text[q + 1] = "\n"
              /\ q + 1 = Len(text) \/ text[q + 2] \in {"\n", "@"}
        /\ \A x \in h..(q - 1) :
               ~(/\ text[x + 1] = "\n"
                 /\ x + 1 = Len(text) \/ text[x + 2] \in {"\n", "@"})

\* C26: get_dataChunk_indices loses no table data.  It returns as many
\* slices as the text has header lines starting with '@' after a line break,
\* and the slice of each header holds the header and every character of
\* every data row of its table, also when the text does not end with a line
\* break and, with Tfile, when the next header follows the last row with no
\* blank line in between.
C26_NoTableDataLost ==
    chunkResult.called =>
        /\ ~chunkResult.raised
        /\ Len(chunkResult.value) = Cardinality(HeaderOffsets(chunkText))
        /\ \A h \in HeaderOffsets(chunkText) :
               \E k \in 1..Len(chunkResult.value) :
                   /\ chunkResult.value[k][1] <= h
                   /\ chunkResult.value[k][1] >= h - 1
                   /\ chunkResult.value[k][2] >= TableEnd(chunkText, h)

\* ------------------------------------------------------------------------
\* util_read_dssat_out.py: delimitate_header_indices, get_section_txt,
\* get_section_df
\* ------------------------------------------------------------------------

\* the slices with each start at the first character of its token
delimitate_header_indices_at_token(section_header_str) ==
    IF section_header_str # <<>> /\ section_header_str[Len(section_header_str)] = " "
    THEN Raised
    ELSE CHOOSE out \in
        { Returned([k \in 1..Len(start_indices) |->
                      <<start_indices[k],
                        IF k < Len(start_indices) THEN start_indices[k + 1]
                        ELSE Len(section_header_str) + 20>>]) :
          start_indices \in
              { <<0>> \o SelectSeq([i \in 1..Len(section_header_str) |-> i],
                                   LAMBDA i : /\ i < Len(section_header_str)
                                              /\ section_header_str[i] = " "
                                              /\ section_header_str[i + 1] # " ") } } : TRUE

\* delimitate_header_indices(section_header_str): the offsets 0 and of every
\* space followed by another character, each paired with the next, the last
\* with len + 20; section_header_str[i+1] raises IndexError for a space at
\* the end
delimitate_header_indices(section_header_str) ==
    IF section_header_str # <<>> /\ section_header_str[Len(section_header_str)] = " "
    THEN Raised
    ELSE CHOOSE out \in
        { Returned([k \in 1..Len(start_indices) |->
                      <<start_indices[k],
                        IF k < Len(start_indices) THEN start_indices[k + 1]
                        ELSE Len(section_header_str) + 20>>]) :
          start_indices \in
              { <<0>> \o SelectSeq([i \in 1..Len(section_header_str) |-> i - 1],
                                   LAMBDA i : /\ i + 1 < Len(section_header_str)
                                              /\ section_header_str[i + 1] = " "
                                              /\ section_header_str[i + 2] # " ") } } : TRUE

\* text.split('\n')
RECURSIVE SplitLines(_)
SplitLines(text) ==
    IF \E i \in 1..Len(text) : text[i] = "\n"
    THEN LET k == CHOOSE i \in 1..Len(text) :
                      text[i] = "\n" /\ \A j \in 1..(i - 1) : text[j] # "\n"
         IN  <<SubSeq(text, 1, k - 1)>> \o SplitLines(SubSeq(text, k + 1, Len(text)))
    ELSE <<text>>

\* get_section_txt(exp_file, section_name) for a file holding fileText and
\* a name without special characters: re.search of
\* "(?s)(?<=" + section_name + ")(.*?)(?=\n\n)", the text between the first
\* section_name and the first blank line after it, or None
get_section_txt(fileText, section_name) ==
    CHOOSE out \in
        { IF k < 0 THEN None
          ELSE CHOOSE o \in
                  { IF q < 0 THEN None
                    ELSE Some(Slice(fileText, k + Len(section_name), q)) :
                    q \in {Find(fileText, <<"\n", "\n">>, k + Len(section_name))} } : TRUE :
          k \in {Find(fileText, section_name, 0)} } : TRUE

\* tables_in_section_rows after the first loop of get_section_df from the
\* i-th row on: a row starting with '!' is passed over, one starting with
\* '@' opens a table (~section_row.startswith('@ ') is -1 or -2, both true),
\* any other row goes to the last table; [-1] of the empty list raises
RECURSIVE TablesInSection(_, _, _)
TablesInSection(all_section_rows, i, tables_in_section_rows) ==
    IF i > Len(all_section_rows) THEN Returned(tables_in_section_rows)
    ELSE IF StartsWith(all_section_rows[i], <<"!">>)
    THEN TablesInSection(all_section_rows, i + 1, tables_in_section_rows)
    ELSE IF StartsWith(all_section_rows[i], <<"@">>)
    THEN TablesInSection(all_section_rows, i + 1,
                         Append(tables_in_section_rows, <<all_section_rows[i]>>))
    ELSE IF tables_in_section_rows = <<>> THEN Raised
    ELSE TablesInSection(all_section_rows, i + 1,
                         [tables_in_section_rows EXCEPT
                             ![Len(tables_in_section_rows)] = Append(@, all_section_rows[i])])

\* one turn of the second loop of get_section_df: the frame of a table and
\* its header_indices
SectionFrame(table_row) ==
    CHOOSE out \in
        { IF header_indices.raised
          THEN [raised |-> TRUE, df |-> RaisedFrame, header_indices |-> <<>>]
          ELSE CHOOSE o \in
                  { [raised |-> df.raised, df |-> df,
                     header_indices |-> header_indices.value] :
                    df \in { DataFrame(
                                [r \in 1..(Len(table_row) - 1) |->
                                    [c \in 1..Len(header_indices.value) |->
                                        StrVal(Strip(Slice(table_row[r + 1],
                                                           header_indices.value[c][1],
                                                           header_indices.value[c][2])))]],
                                Split(table_row[1])) } } : TRUE :
          header_indices \in {delimitate_header_indices(table_row[1])} } : TRUE

\* get_section_df(exp_file, section_name): None, or df_list and
\* header_indices_list
get_section_df(fileText, section_name) ==
    CHOOSE out \in
        { IF section_str.isNone THEN Returned(None)
          ELSE CHOOSE o \in
                  { IF tables.raised THEN Raised
                    ELSE CHOOSE o2 \in
                            { IF \E k \in 1..Len(frames) : frames[k].raised THEN Raised
                              ELSE Returned(
                                       [isNone |-> FALSE,
                                        df_list |-> [k \in 1..Len(frames) |-> frames[k].df],
                                        header_indices_list |->
                                            [k \in 1..Len(frames) |->
                                                frames[k].header_indices]]) :
                              frames \in { [k \in 1..Len(tables.value) |->
                                              SectionFrame(tables.value[k])] } } : TRUE :
                    tables \in { TablesInSection(Tail(SplitLines(section_str.list)),
                                                 1, <<>>) } } : TRUE :
          section_str \in {get_section_txt(fileText, section_name)} } : TRUE

\* Bound: the number of data rows of the first table of a section
MaxSectionRows == 2

\* the lines of the experiment files: the section title, header lines (one
\* ending in a space), data rows without and with a trailing comment, and a
\* comment line
ExpLine ==
    [ Title |->
         <<"*", "S", "E", "C", " ", "(", "a", "l", "l", ")">>,
      SectionName |->
         <<"S", "E", "C">>,
      Headers |->
         { <<"@", "N", " ", "A">>,
           <<"@", "N", " ", " ", "A", "B", " ", " ", " ", "C">>,
           <<"@", " ", "N", " ", "A">>,
           <<"@", "N", " ", "A", " ">> },
      Rows |->
         { <<" ", "1", " ", "2">>,
           <<"1", "0", " ", " ", "a", "b", " ", "!", " ", "c">>,
           <<" ", "1", " ", "2", "!", "c">> },
      Header2 |->
         <<"@", "M", " ", " ", "X">>,
      Row2 |->
         <<" ", "3", " ", " ", "4">>,
      Comment |->
         <<"\n", "!", " ", "n", "o", "t", "e">> ]

\* the files: the title, a comment line or none, a table of a header and
\* 0..MaxSectionRows rows, a second table or none, and a blank line or the
\* end of the file
SectionFileChoices ==
    { ExpLine.Title \o comment \o <<"\n">> \o header
          \o Join([k \in 1..Len(rows) |-> <<"\n">> \o rows[k]]) \o second \o last :
      comment \in {<<>>, ExpLine.Comment},
      header \in ExpLine.Headers,
      rows \in BoundedSeqs(ExpLine.Rows, MaxSectionRows),
      second \in {<<>>, <<"\n">> \o ExpLine.Header2 \o <<"\n">> \o ExpLine.Row2},
      last \in {<<"\n">>, <<"\n", "\n">>} }

get_section_df_call ==
    /\ ~sectionResult.called
    /\ sectionResult' = get_section_df(xFile, sectionName)
    /\ UNCHANGED <<xFile, sectionName>>
    /\ UNCHANGED <<batchVars, culVars, cumVars, fmtVars, soilVars, runVars, outVars, effVars, fixVars, readVars, dirVars, chunkVars>>

\* the header lines of the section of the file, in their order
SectionHeaders ==
    SelectSeq(SplitLines(get_section_txt(xFile, sectionName).list),
              LAMBDA row : StartsWith(row, <<"@">>))

\* the call has returned the tables of the section
TablesReturned ==
    /\ sectionResult.called
    /\ ~sectionResult.raised
    /\ ~sectionResult.value.isNone

\* C25: the table readers discard trailing comment text: no column value of
\* a table get_section_df returns holds a '!', the first character of the
\* comment of a data row.
C25_CommentsDiscarded ==
    TablesReturned =>
        \A t \in 1..Len(sectionResult.value.df_list) :
            \A r \in 1..Len(sectionResult.value.df_list[t].rows) :
                \A c \in 1..Len(sectionResult.value.df_list[t].rows[r]) :
                    ~Contains(sectionResult.value.df_list[t].rows[r][c].str, <<"!">>)

\* C30: for a header line beginning with '@' and not ending in a space,
\* delimitate_header_indices returns one slice per token of the header; the
\* first starts at 0, each end is the next start, each later slice starts at
\* the space before its token, and the last ends at len(header) + 20.
C30_OneSlicePerToken ==
    TablesReturned =>
        \A t \in 1..Len(SectionHeaders) :
            \E header \in {SectionHeaders[t]},
               slices \in {sectionResult.value.header_indices_list[t]} :
                (header[1] = "@" /\ header[Len(header)] # " ") =>
                    /\ Len(slices) = Len(Split(header))
                    /\ slices[1][1] = 0
                    /\ slices[Len(slices)][2] = Len(header) + 20
                    /\ \A k \in 1..(Len(slices) - 1) : slices[k][2] = slices[k + 1][1]
                    /\ \A k \in 2..Len(slices) :
                           /\ header[slices[k][1] + 1] = " "
                           /\ StartsWith(SliceFrom(header, slices[k][1] + 1),
                                         Split(header)[k])

\* the tables of a section of two tables have been returned, the first with
\* a header of three tokens, two of them after more than one space
C30_Witness ==
    /\ TablesReturned
    /\ Len(sectionResult.value.header_indices_list) = 2
    /\ SectionHeaders[1] = <<"@", "N", " ", " ", "A", "B", " ", " ", " ", "C">>
    /\ Len(sectionResult.value.header_indices_list[1]) = 3

\* ------------------------------------------------------------------------
\* util_efficiency.py: RMSE, nRMSE, RSR, dStat, KGE
\* ------------------------------------------------------------------------

RECURSIVE GCD(_, _)
GCD(a, b) == IF b = 0 THEN a ELSE GCD(b, a % b)

\* A numpy float64, taken as the real number it stands for: sgn * sqrt(n/d)
\* for integers n >= 0 and d > 0, in lowest terms; rounding is left out.
Float64(sgn, n, d) ==
    IF n = 0 \/ sgn = 0 THEN [kind |-> "num", sgn |-> 0, n |-> 0, d |-> 1]
    ELSE [kind |-> "num", sgn |-> sgn, n |-> n \div GCD(n, d), d |-> d \div GCD(n, d)]

\* the float64 values that are no numbers: nan, and inf with its sign
NotANumber == [kind |-> "nan", sgn |-> 0, n |-> 0, d |-> 1]

Infinite(sgn) == [kind |-> "inf", sgn |-> sgn, n |-> 0, d |-> 1]

\* x / y with 0 for every division by zero
DivideSafely(x, y) ==
    IF x.kind = "nan" \/ y.kind = "nan" THEN NotANumber
    ELSE IF x.kind = "inf"
         THEN IF y.kind = "inf" THEN NotANumber
              ELSE Infinite(IF y.sgn < 0 THEN 0 - x.sgn ELSE x.sgn)
    ELSE IF y.kind = "inf" \/ y.sgn = 0 THEN Float64(0, 0, 1)
    ELSE Float64(x.sgn * y.sgn, x.n * y.d, x.d * y.n)

\* x / y for float64 x and y: a division by zero gives nan for 0/0 and inf
\* otherwise (a warning, no exception)
Divide(x, y) ==
    IF x.kind = "nan" \/ y.kind = "nan" THEN NotANumber
    ELSE IF x.kind = "inf"
         THEN IF y.kind = "inf" THEN NotANumber
              ELSE Infinite(IF y.sgn < 0 THEN 0 - x.sgn ELSE x.sgn)
    ELSE IF y.kind = "inf" THEN Float64(0, 0, 1)
    ELSE IF y.sgn = 0
         THEN IF x.sgn = 0 THEN NotANumber ELSE Infinite(x.sgn)
    ELSE Float64(x.sgn * y.sgn, x.n * y.d, x.d * y.n)

RECURSIVE Sum(_)
Sum(a) == IF a = <<>> THEN 0 ELSE Head(a) + Sum(Tail(a))

\* np.mean(a) of a non-empty array of integers
Mean(a) ==
    Float64(IF Sum(a) < 0 THEN -1 ELSE 1, Sum(a) * Sum(a), Len(a) * Len(a))

\* np.std(a): the root of the mean of the squared deviations from the mean
Std(a) ==
    Float64(1, Len(a) * Sum([i \in 1..Len(a) |-> a[i] * a[i]]) - Sum(a) * Sum(a),
            Len(a) * Len(a))

\* mean_squared_error(observed, simulated, squared=False)
mean_squared_error(obs, sim) ==
    Float64(1, Sum([i \in 1..Len(obs) |->
                      (obs[i] - sim[i]) * (obs[i] - sim[i])]),
            Len(obs))

RMSE(obs, sim) == Returned(mean_squared_error(obs, sim))

nRMSE(obs, sim) ==
    Returned(Divide(mean_squared_error(obs, sim), Mean(obs)))

RSR(obs, sim) ==
    Returned(Divide(mean_squared_error(obs, sim), Std(obs)))

\* dStat with the absolute values of its denominator left out
dStatNoAbs(obs, sim) ==
    LET n == Len(obs)
        num == Sum([i \in 1..n |->
                      (obs[i] - sim[i]) * (obs[i] - sim[i])])
        den == Sum([i \in 1..n |->
                      ((n * sim[i] - Sum(obs))
                       + (n * obs[i] - Sum(obs)))
                      * ((n * sim[i] - Sum(obs))
                         + (n * obs[i] - Sum(obs)))])
    IN  IF den = 0
        THEN Returned(IF num = 0 THEN NotANumber ELSE Infinite(-1))
        ELSE Returned(Float64(IF den < n * n * num THEN -1 ELSE 1,
                              (den - n * n * num) * (den - n * n * num), den * den))

\* dStat(observed, simulated): 1 - num/den; with n = len(observed) the
\* denominator is taken n*n times, which keeps it an integer
dStat(obs, sim) ==
    LET n == Len(obs)
        num == Sum([i \in 1..n |->
                      (obs[i] - sim[i]) * (obs[i] - sim[i])])
        den == Sum([i \in 1..n |->
                      (Abs(n * sim[i] - Sum(obs))
                       + Abs(n * obs[i] - Sum(obs)))
                      * (Abs(n * sim[i] - Sum(obs))
                         + Abs(n * obs[i] - Sum(obs)))])
    IN  IF den = 0
        THEN Returned(IF num = 0 THEN NotANumber ELSE Infinite(-1))
        ELSE Returned(Float64(IF den < n * n * num THEN -1 ELSE 1,
                              (den - n * n * num) * (den - n * n * num), den * den))

\* stats.pearsonr(observed, simulated)[0]: ValueError for fewer than two
\* values, nan (and a warning) when one of the arrays is constant
pearsonr(x, y) ==
    LET n == Len(x)
        c == n * Sum([i \in 1..n |-> x[i] * y[i]]) - Sum(x) * Sum(y)
        vx == n * Sum([i \in 1..n |-> x[i] * x[i]]) - Sum(x) * Sum(x)
        vy == n * Sum([i \in 1..n |-> y[i] * y[i]]) - Sum(y) * Sum(y)
    IN  IF n < 2 THEN Raised
        ELSE IF vx = 0 \/ vy = 0 THEN Returned(NotANumber)
        ELSE Returned(Float64(IF c < 0 THEN -1 ELSE 1, c * c, vx * vy))

\* KGE(observed, simulated): 1 - ((r-1)**2 + (a-1)**2 + (b-1)**2)**0.5.
\* It is 1 when r, a and b are 1, nan when one of them is nan, -inf when one
\* is infinite; any other value is below 1 and is kept as the three parts.
KGE(obs, sim) ==
    LET correlation_coefficient == pearsonr(obs, sim)
        parts == <<correlation_coefficient.value,
                   Divide(Std(obs), Std(sim)),
                   Divide(Mean(obs), Mean(sim))>>
    IN  IF correlation_coefficient.raised THEN Raised
        ELSE IF \E k \in 1..3 : parts[k].kind = "nan" THEN Returned(NotANumber)
        ELSE IF \E k \in 1..3 : parts[k].kind = "inf" THEN Returned(Infinite(-1))
        ELSE IF \A k \in 1..3 : parts[k] = Float64(1, 1, 1) THEN Returned(Float64(1, 1, 1))
        ELSE Returned([kind |-> "1 - norm", sgn |-> 0, n |-> 0, d |-> 1, parts |-> parts])

\* the values of the series and their greatest length
SeriesValues == {-1, 0, 1}

MaxSeriesLen == 3

\* one call of a function of util_efficiency with the series as arguments
efficiency_call ==
    /\ metric = "none"
    /\ \E f \in {"RMSE", "nRMSE", "RSR", "dStat", "KGE"} :
          /\ metric' = f
          /\ metricValue' =
                CASE f = "RMSE" -> RMSE(series.observed, series.simulated)
                  [] f = "nRMSE" -> nRMSE(series.observed, series.simulated)
                  [] f = "RSR" -> RSR(series.observed, series.simulated)
                  [] f = "dStat" -> dStat(series.observed, series.simulated)
                  [] OTHER -> KGE(series.observed, series.simulated)
    /\ UNCHANGED series
    /\ UNCHANGED <<batchVars, culVars, cumVars, fmtVars, soilVars, runVars, outVars, fixVars, readVars, dirVars, chunkVars, secVars>>

C20_dStatRange ==
    (/\ metric = "dStat"
     /\ \E i \in 1..Len(series.observed) :
           \/ Len(series.observed) * series.observed[i] # Sum(series.observed)
           \/ Len(series.observed) * series.simulated[i] # Sum(series.observed))
        => /\ ~metricValue.raised
           /\ metricValue.value.kind = "num"
           /\ metricValue.value.sgn >= 0
           /\ metricValue.value.n <= metricValue.value.d
           /\ (metricValue.value = Float64(1, 1, 1))
                  <=> (series.simulated = series.observed)

\* C20 witness: dStat of two equal series that are not constant
C20_Witness ==
    /\ metric = "dStat"
    /\ series.observed = <<-1, 0, 1>>
    /\ series.simulated = series.observed
    /\ metricValue = Returned(Float64(1, 1, 1))

\* the values a table holds in one column, or that it has no such column
FieldValues(df, label) ==
    IF df.raised \/ ~HasColumn(df, label) THEN <<"no column">>
    ELSE [i \in 1..Len(df.rows) |-> df.rows[i][ColumnIndex(df, label)]]

\* every column of the table before that is not named holds, in the table
\* after, the values it held before
FieldsKept(before, after, names) ==
    \A j \in 1..Len(before.columns) :
        (\A k \in 1..Len(names) : names[k] # before.columns[j]) =>
            FieldValues(after, before.columns[j]) = FieldValues(before, before.columns[j])

\* caller p has run from its entry to its end while the other caller has
\* not started
RanAlone(p) ==
    /\ pc[p] \in {"done", "raised"}
    /\ \A q \in Procs \ {p} : pc[q] = "start"

\* C23: update_soil_layer_param changes only the named fields.  When one
\* call has run alone on the file it has returned without an error (also
\* when a name of param_name_list is a column of neither table), the
\* selected record read from the file after the call holds, in every column
\* of its general and layered tables that is not in param_name_list, the
\* values read before the call, and the text of every other record of the
\* file is what it was.
C23_OnlyNamedFieldsChange ==
    \A p \in Procs :
        RanAlone(p) =>
            \E before \in {read_soil_profile(fsoil0, args[p].soil_id)},
               after \in {read_soil_profile(fsoil, args[p].soil_id)} :
                /\ pc[p] = "done"
                /\ ~before.raised
                /\ ~after.raised
                /\ FieldsKept(before.soil_info_df, after.soil_info_df,
                              args[p].param_name_list)
                /\ FieldsKept(before.soil_layered_info_df, after.soil_layered_info_df,
                              args[p].param_name_list)
                /\ \A id \in {Label.SA01, Label.SB02} \ {args[p].soil_id} :
                       read_soil_text(fsoil, id) = read_soil_text(fsoil0, id)

\* ------------------------------------------------------------------------
\* util_soil.py: read_soil_profile, called on its own
\* ------------------------------------------------------------------------

\* the marker line of a record whose id begins with the id SA01, and a data
\* line of a third layer
SoilLineMore ==
    [ MarkerAX |->
         <<"*", "S", "A", "0", "1", "X", " ", "D", "E", "M", "O", " ", "C", "\n">>,
      LayerRowShort30 |->
         <<" ", " ", " ", " ", "3", "0", " ", " ", "0", ".", "1", "3", "0", " ", "0", ".", "2", "3", "0", "\n">> ]

\* the record SA01 with one layer table of two rows, with nothing, a blank
\* line or a comment line between the rows; after it nothing or a blank
\* line, and then the end of the file, the record SB02, the record SA01X,
\* or a data line; the record SB02 may also come first
ReadFileChoices ==
    { Join((IF first = 1
            THEN <<SoilLine.MarkerB, SoilLine.SiteHeader, SoilLine.SiteRow,
                   SoilLine.GeneralHeaderShort, SoilLine.GeneralRowShort,
                   SoilLine.Tier1HeaderShort, SoilLine.LayerRowShort5>>
            ELSE <<>>)
           \o <<SoilLine.MarkerA, SoilLine.SiteHeader, SoilLine.SiteRow,
                SoilLine.GeneralHeaderShort, SoilLine.GeneralRowShort,
                SoilLine.Tier1HeaderShort, SoilLine.LayerRowShort5>>
           \o (CASE inner = 0 -> <<>>
                 [] inner = 1 -> <<SoilLine.BlankLine>>
                 [] OTHER -> <<SoilLine.CommentLine>>)
           \o <<SoilLine.LayerRowShort15>>
           \o [k \in 1..blank |-> SoilLine.BlankLine]
           \o (CASE next = 0 -> <<>>
                 [] next = 1 -> <<SoilLine.MarkerB, SoilLine.SiteHeader, SoilLine.SiteRow,
                                  SoilLine.GeneralHeaderShort, SoilLine.GeneralRowShort,
                                  SoilLine.Tier1HeaderShort, SoilLine.LayerRowShort5>>
                 [] next = 2 -> <<SoilLineMore.MarkerAX, SoilLine.SiteHeader, SoilLine.SiteRow,
                                  SoilLine.GeneralHeaderShort, SoilLine.GeneralRowShort,
                                  SoilLine.Tier1HeaderShort, SoilLine.LayerRowShort5>>
                 [] OTHER -> <<SoilLineMore.LayerRowShort30>>)) :
      first \in 0..1, inner \in 0..2, blank \in 0..1, next \in 0..3 }

\* read_soil_profile(soilFilePath, soil_id, OnlyText): the text with
\* OnlyText, the tables, lines and texts without
read_soil_profile_call ==
    /\ ~profileRead.called
    /\ \E OnlyText \in BOOLEAN :
          profileRead' = [called |-> TRUE,
                          OnlyText |-> OnlyText,
                          value |-> IF OnlyText THEN read_soil_text(solFile, solId)
                                    ELSE read_soil_profile(solFile, solId)]
    /\ UNCHANGED <<solFile, solId>>
    /\ UNCHANGED <<batchVars, culVars, cumVars, fmtVars, soilVars, runVars, outVars, effVars, fixVars, dirVars, chunkVars, secVars>>

\* the first line of lines, at or after line i, for which Ends holds, or
\* one past the last line
FirstLine(lines, i, Ends(_)) ==
    CHOOSE k \in i..(Len(lines) + 1) :
        /\ k > Len(lines) \/ Ends(lines[k])
        /\ \A j \in i..(k - 1) : ~Ends(lines[j])

\* the text of the file from the first marker line of soil_id up to, and not
\* including, the first later line for which Ends holds
RecordUpTo(file, id, Ends(_)) ==
    LET lines == ReadLines(file)
        IsMarker(line) == StartsWith(line, <<"*">> \o id)
        m == FirstLine(lines, 1, IsMarker)
    IN  IF m > Len(lines) THEN <<>>
        ELSE Join(SubSeq(lines, m, FirstLine(lines, m + 1, Ends) - 1))

\* what the call made would have returned on the file text
SameOn(text) ==
    profileRead.value = IF profileRead.OnlyText THEN read_soil_text(text, solId)
                        ELSE read_soil_profile(text, solId)

\* C24: read_soil_profile captures the lines of the selected record from its
\* marker line up to, and not including, the next line starting with '*' or
\* the first blank line, whichever comes first: what it returns, raw text and
\* tables, is what it returns on the file cut at that line, and the raw text
\* is the text of those lines.
C24_EndsAtMarkerOrBlankLine ==
    profileRead.called =>
        LET Ends(line) == StartsWith(line, <<"*">>) \/ Strip(line) = <<>>
            record == RecordUpTo(solFile, solId, Ends)
        IN  /\ SameOn(record)
            /\ profileRead.OnlyText => profileRead.value = Returned(record)

\* C27: read_soil_profile returns the lines of exactly one record, the first
\* whose marker line starts with '*' + soil_id, also when the marker line of
\* the record after it starts with '*' + soil_id too: what it returns is what
\* it returns on the file cut before the first line starting with '*' after
\* that marker line, and no later line of the raw text starts with '*'.
C27_ExactlyOneRecord ==
    profileRead.called =>
        LET Ends(line) == StartsWith(line, <<"*">>)
        IN  /\ SameOn(RecordUpTo(solFile, solId, Ends))
            /\ (profileRead.OnlyText /\ ~profileRead.value.raised) =>
                   \A k \in 2..Len(ReadLines(profileRead.value.value)) :
                       ~StartsWith(ReadLines(profileRead.value.value)[k], <<"*">>)

\* ------------------------------------------------------------------------
\* util_soil.py: fix_missing_soil_param, called on its own
\* ------------------------------------------------------------------------

\* the greatest number of rows of the tables given to fix_missing_soil_param
MaxFixRows == 2

\* a table with the given columns and n rows; the value of row i and column
\* j is the integer 10 * i + j
TableOf(columns, n) ==
    Frame(columns, [i \in 1..n |-> [j \in 1..Len(columns) |-> IntVal(10 * i + j)]])

\* the columns of the tables given: none, some, all of a list, and one that
\* is in no list
FixColumnChoices ==
    [ general |-> { <<>>, <<Label.SALB>>, <<Label.XXXX, Label.SALB>>,
                    Labels(soil_info_params) },
      layered |-> { <<>>, <<Label.SLB, Label.SLLL>>, <<Label.SLB, Label.SDUL, Label.SLPX>>,
                    <<Label.SLB, Label.NVG, Label.ALFVG>>,
                    <<Label.SLB, Label.SLPX, Label.ALFVG, Label.XXXX>>,
                    <<Label.SLB, Label.NVG, Label.WCRES>>,
                    Labels(soil_layered_info_params_tier1),
                    Labels(soil_layered_info_params_tier2) } ]

\* one call of fix_missing_soil_param with the two tables, which it changes
\* in place and returns
fix_missing_soil_param_call ==
    /\ Len(fixedTables) < 2
    /\ fixedTables' = Append(fixedTables,
                       IF fixedTables = <<>> THEN fix_missing_soil_param(given[1], given[2])
                       ELSE fix_missing_soil_param(fixedTables[Len(fixedTables)][1], fixedTables[Len(fixedTables)][2]))
    /\ UNCHANGED given
    /\ UNCHANGED <<batchVars, culVars, cumVars, fmtVars, soilVars, runVars, outVars, effVars, readVars, dirVars, chunkVars, secVars>>

\* C22: after fix_missing_soil_param the general table has the 10 general
\* fields and the layered table the 17 fields of tier 1, those of tier 2 if
\* it had SLPX and those of tier 3 if it had ALFVG; a column that was added
\* holds '-99' in every row, a column that was there keeps its values, no
\* row is added or lost, and a second call changes nothing
C22_CompleteColumns ==
    fixedTables # <<>> =>
        LET Has(df, labels) == \A k \in 1..Len(labels) : HasColumn(df, labels[k])
            Kept(old, new) ==
                /\ Len(new.rows) = Len(old.rows)
                /\ \A j \in 1..Len(old.columns) : HasColumn(new, old.columns[j])
                /\ \A i \in 1..Len(new.rows) : \A j \in 1..Len(new.columns) :
                      new.rows[i][j] =
                          IF HasColumn(old, new.columns[j])
                          THEN Loc(old, i - 1, new.columns[j])
                          ELSE Missing
        IN  /\ Has(fixedTables[1][1], Labels(soil_info_params))
            /\ Has(fixedTables[1][2], Labels(soil_layered_info_params_tier1))
            /\ HasColumn(given[2], Label.SLPX)
                   => Has(fixedTables[1][2], Labels(soil_layered_info_params_tier2))
            /\ HasColumn(given[2], Label.ALFVG)
                   => Has(fixedTables[1][2], soil_layered_info_params_tier3)
            /\ Kept(given[1], fixedTables[1][1])
            /\ Kept(given[2], fixedTables[1][2])
            /\ Len(fixedTables) = 2 => fixedTables[2] = fixedTables[1]

\* C22 witness: two calls on a general table with SALB only and a layered
\* table with SLB, NVG and ALFVG, which gets the two other columns of tier 3
C22_Witness ==
    /\ Len(fixedTables) = 2
    /\ given[1].columns = <<Label.SALB>>
    /\ given[2].columns = <<Label.SLB, Label.NVG, Label.ALFVG>>
    /\ Len(given[2].rows) = 2
    /\ Len(fixedTables[2][2].columns) = 17 + 4
    /\ Loc(fixedTables[2][2], 1, Label.NVG) = IntVal(22)
    /\ Loc(fixedTables[2][2], 1, Label.WCRES) = Missing

\* ------------------------------------------------------------------------
\* util_soil.py: read_soil_profile followed by create_soil_profile
\* ------------------------------------------------------------------------

\* the soil files of the round trip: record SA01 with every field and no
\* missing value; with or without a comment line (after the header of the
\* general table, or between two layers), with or without a van Genuchten
\* table (its MVG equal to 1 - 1/NVG, or another number), followed by zero
\* to two blank lines and then by the end of the file or by the short
\* record SB02
RoundTripFiles ==
    { Join(<<SoilLine.MarkerA, SoilLine.SiteHeader, SoilLine.SiteRow, SoilLine.GeneralHeader>>
           \o (IF comment = 1 THEN <<SoilLine.CommentLine>> ELSE <<>>)
           \o <<SoilLine.GeneralRow, SoilLine.Tier1Header, SoilLine.FullRow5>>
           \o (IF comment = 2 THEN <<SoilLine.CommentLine>> ELSE <<>>)
           \o <<SoilLine.FullRow15>>
           \o (CASE tier3 = 0 -> <<>>
                 [] tier3 = 1 -> <<SoilLine.Tier3Header, SoilLine.Tier3Row5, SoilLine.Tier3Row15>>
                 [] OTHER -> <<SoilLine.Tier3Header, SoilLine.Tier3Row5, SoilLine.Tier3Row15x>>)
           \o [k \in 1..blank |-> SoilLine.BlankLine]
           \o (IF next = 1
               THEN <<SoilLine.MarkerB, SoilLine.SiteHeader, SoilLine.SiteRow,
                      SoilLine.GeneralHeaderShort, SoilLine.GeneralRowShort,
                      SoilLine.Tier1HeaderShort, SoilLine.LayerRowShort5>>
               ELSE <<>>)) :
      comment \in 0..2, tier3 \in 0..2, blank \in 0..2, next \in 0..1 }

\* soil_info_df, soil_layered_info_df, _, soil_text, headertext_list =
\* read_soil_profile(soilFilePath, soil_id), then
\* create_soil_profile(soil_layered_info_df, soil_info_df, headertext_list):
\* the raw text is kept in old_soil_profile, the created one in
\* new_soil_profile
RoundTrip ==
    /\ pc[1] = "start"
    /\ \E read \in {read_soil_profile(fsoil, args[1].soil_id)} :
          IF read.raised
          THEN /\ pc' = [pc EXCEPT ![1] = "raised"]
               /\ UNCHANGED <<old_soil_profile, new_soil_profile>>
          ELSE \E text \in {create_soil_profile(read.soil_layered_info_df, read.soil_info_df,
                                                read.headertext_list)} :
                  /\ pc' = [pc EXCEPT ![1] = IF text.raised THEN "raised" ELSE "done"]
                  /\ old_soil_profile' = [old_soil_profile EXCEPT ![1] = read.soil_text]
                  /\ new_soil_profile' = [new_soil_profile EXCEPT ![1] = text.value]
    /\ UNCHANGED <<fsoil, fsoil0, args, soil_text, observed>>
    /\ UNCHANGED <<batchVars, culVars, cumVars, fmtVars, runVars, outVars, effVars, fixVars, readVars, dirVars, chunkVars, secVars>>

\* C11: for a soil record with no missing fields, create_soil_profile applied
\* to what read_soil_profile returned gives, character for character, the raw
\* record text read_soil_profile returned, also when the record has comment
\* lines, is followed by blank lines, or has a van Genuchten table.
C11_RoundTrip ==
    pc[1] = "done" => new_soil_profile[1] = old_soil_profile[1]

\* ------------------------------------------------------------------------
\* Specifications
\* ------------------------------------------------------------------------

\* the parts of the program a specification does not exercise stay as they
\* are before any call: no file, no arguments, no result
Idle(parts) ==
    /\ IF "batch" \in parts
       THEN /\ Fexp = <<>>
            /\ selected_treatments = None
            /\ DSSBatchFile = NoFile
       ELSE TRUE
    /\ IF "cultivar" \in parts
       THEN /\ culFile = [crop \in Crops |-> <<>>]
            /\ culCalls = 0
            /\ culCall = NoCall
       ELSE TRUE
    /\ IF "cum" \in parts
       THEN /\ cumdata = <<>>
            /\ dailydata = NotCalled
       ELSE TRUE
    /\ IF "format" \in parts
       THEN /\ fmtArgs = [input_to_format |-> IntVal(0), space_available |-> 0, decimal |-> 0]
            /\ fmtResult = NotCalled
       ELSE TRUE
    /\ IF "soil" \in parts
       THEN /\ fsoil = <<>>
            /\ fsoil0 = <<>>
            /\ pc = [p \in Procs |-> "idle"]
            /\ args = [p \in Procs |-> NoArgs]
            /\ old_soil_profile = [p \in Procs |-> <<>>]
            /\ new_soil_profile = [p \in Procs |-> <<>>]
            /\ soil_text = [p \in Procs |-> <<>>]
            /\ observed = NotObserved
       ELSE TRUE
    /\ IF "run" \in parts
       THEN /\ run = NotRunning
       ELSE TRUE
    /\ IF "out" \in parts
       THEN /\ filePath = <<>>
            /\ written = <<>>
            /\ outArgs = <<>>
            /\ outResult = NotCalled
       ELSE TRUE
    /\ IF "eff" \in parts
       THEN /\ series = <<>>
            /\ metric = "none"
            /\ metricValue = NotCalled
       ELSE TRUE
    /\ IF "fix" \in parts
       THEN /\ given = <<>>
            /\ fixedTables = <<>>
       ELSE TRUE
    /\ IF "read" \in parts
       THEN /\ solFile = <<>>
            /\ solId = <<>>
            /\ profileRead = NotCalled
       ELSE TRUE
    /\ IF "dirs" \in parts
       THEN /\ culSrc = <<>>
            /\ culDst = NoFile
            /\ culArgs = <<>>
            /\ culReturn = NotCalled
       ELSE TRUE
    /\ IF "chunk" \in parts
       THEN /\ chunkText = <<>>
            /\ chunkTfile = FALSE
            /\ chunkResult = NotCalled
       ELSE TRUE
    /\ IF "sec" \in parts
       THEN /\ xFile = <<>>
            /\ sectionName = <<>>
            /\ sectionResult = NotCalled
       ELSE TRUE

InitBatch ==
    /\ Fexp \in BoundedSeqs(ExpLineChoices, MaxExpLines)
    /\ selected_treatments \in FilterChoices
    /\ DSSBatchFile = NoFile
    /\ Idle({"cultivar", "cum", "format", "soil", "run", "out", "eff", "fix", "read", "dirs", "chunk", "sec"})

SpecBatch ==
    /\ InitBatch
    /\ [][create_DSSBatch]_vars

InitCultivar ==
    /\ culFile \in [Crops -> CulFileChoices]
    /\ culCalls = 0
    /\ culCall = NoCall
    /\ Idle({"batch", "cum", "format", "soil", "run", "out", "eff", "fix", "read", "dirs", "chunk", "sec"})

SpecCultivar ==
    /\ InitCultivar
    /\ [][update_corn_cultivar \/ update_soybean_cultivar \/ update_potato_cultivar]_vars

InitCum ==
    /\ cumdata \in BoundedSeqs(CumValues, MaxCumLen)
    /\ dailydata = NotCalled
    /\ Idle({"batch", "cultivar", "format", "soil", "run", "out", "eff", "fix", "read", "dirs", "chunk", "sec"})

SpecCum ==
    /\ InitCum
    /\ [][cum2daily_call]_vars

InitFormat ==
    /\ fmtArgs \in [input_to_format : FmtValues,
                    space_available : 0..MaxWidth,
                    decimal : 0..MaxDecimal]
    /\ fmtResult = NotCalled
    /\ Idle({"batch", "cultivar", "cum", "soil", "run", "out", "eff", "fix", "read", "dirs", "chunk", "sec"})

SpecFormat ==
    /\ InitFormat
    /\ [][formatInput_call]_vars

SoilProfileNext ==
    \/ \E p \in Procs : USP_Read(p) \/ USP_Truncate(p) \/ USP_OpenW(p) \/ USP_Write(p)
    \/ ReaderReads

\* update_soil_profile(soilFilePath, old, new) is entered by caller 1
InitSoilProfile ==
    /\ fsoil \in BoundedSeqs(SoilChars, MaxSoilText)
    /\ fsoil0 = fsoil
    /\ pc = [p \in Procs |-> IF p = 1 THEN "update" ELSE "idle"]
    /\ args = [p \in Procs |-> NoArgs]
    /\ old_soil_profile \in {[p \in Procs |-> IF p = 1 THEN t ELSE <<>>] :
                                t \in BoundedSeqs(SoilChars, MaxProfileText)}
    /\ new_soil_profile \in {[p \in Procs |-> IF p = 1 THEN t ELSE <<>>] :
                                t \in BoundedSeqs(SoilChars, MaxProfileText)}
    /\ soil_text = [p \in Procs |-> <<>>]
    /\ observed = NotObserved
    /\ Idle({"batch", "cultivar", "cum", "format", "run", "out", "eff", "fix", "read", "dirs", "chunk", "sec"})

SpecSoilProfile ==
    /\ InitSoilProfile
    /\ [][SoilProfileNext]_vars

InitSoilLayer ==
    /\ fsoil \in SoilFileChoices
    /\ fsoil0 = fsoil
    /\ pc = [p \in Procs |-> "start"]
    /\ args \in {[p \in Procs |-> IF p = 1 THEN a ELSE b] :
                    a \in CallChoices(1), b \in CallChoices(2)}
    /\ old_soil_profile = [p \in Procs |-> <<>>]
    /\ new_soil_profile = [p \in Procs |-> <<>>]
    /\ soil_text = [p \in Procs |-> <<>>]
    /\ observed = NotObserved
    /\ Idle({"batch", "cultivar", "cum", "format", "run", "out", "eff", "fix", "read", "dirs", "chunk", "sec"})

SoilLayerNext ==
    \E p \in Procs :
        USLP_Read(p) \/ USP_Read(p) \/ USP_Truncate(p) \/ USP_OpenW(p) \/ USP_Write(p)

SpecSoilLayer ==
    /\ InitSoilLayer
    /\ [][SoilLayerNext]_vars

InitRoundTrip ==
    /\ fsoil \in RoundTripFiles
    /\ fsoil0 = fsoil
    /\ pc = [p \in Procs |-> IF p = 1 THEN "start" ELSE "idle"]
    /\ args \in {[p \in Procs |-> IF p = 1 THEN Call(soil_id, <<>>, <<>>) ELSE NoArgs] :
                    soil_id \in {Label.SA01, Label.SB02}}
    /\ old_soil_profile = [p \in Procs |-> <<>>]
    /\ new_soil_profile = [p \in Procs |-> <<>>]
    /\ soil_text = [p \in Procs |-> <<>>]
    /\ observed = NotObserved
    /\ Idle({"batch", "cultivar", "cum", "format", "run", "out", "eff", "fix", "read", "dirs", "chunk", "sec"})

SpecRoundTrip ==
    /\ InitRoundTrip
    /\ [][RoundTrip]_vars

\* run_dssat is called on an experiment file that exists; a batch file of an
\* earlier run may be there
InitRun ==
    /\ Fexp \in BoundedSeqs(ExpLineChoices, MaxRunLines)
    /\ selected_treatments \in FilterChoices
    /\ DSSBatchFile \in {NoFile, FileWith(BatchHeader)}
    /\ run \in {[NotRunning EXCEPT !.pc = "called", !.ExpFilePath = path] : path \in RunPaths}
    /\ Idle({"cultivar", "cum", "format", "soil", "out", "eff", "fix", "read", "dirs", "chunk", "sec"})

SpecRun ==
    /\ InitRun
    /\ [][run_dssat]_vars

InitOut ==
    /\ written \in [1..2 -> RunChoices]
    /\ filePath = ReportText(written)
    /\ outArgs \in { [paramList |-> paramList, cum_param_list |-> cum_param_list,
                      daily |-> daily] :
                     paramList \in {<<OutParam.ETAC>>, <<OutParam.ETAC, OutParam.SWXD>>},
                     cum_param_list \in {<<>>, <<OutParam.ETAC>>},
                     daily \in BOOLEAN }
    /\ outResult = NotCalled
    /\ Idle({"batch", "cultivar", "cum", "format", "soil", "run", "eff", "fix", "read", "dirs", "chunk", "sec"})

SpecOut == InitOut /\ [][extract_call]_vars

InitWatBal ==
    /\ written \in BoundedSeqs(BalanceChoices, 2)
    /\ \A r, s \in 1..Len(written) : written[r].outside = written[s].outside
    /\ filePath = BalanceText(written)
    /\ outArgs \in { [RunStart |-> RunStart, RunEnd |-> RunEnd] :
                     RunStart \in 1..2,
                     RunEnd \in {StrVal(WatBalWords.last), IntVal(1)} }
    /\ outResult = NotCalled
    /\ Idle({"batch", "cultivar", "cum", "format", "soil", "run", "eff", "fix", "read", "dirs", "chunk", "sec"})

SpecWatBal == InitWatBal /\ [][SoilWatBal_call]_vars

InitEff ==
    /\ series \in { [observed |-> obs, simulated |-> sim] :
                    obs \in BoundedSeqs(SeriesValues, MaxSeriesLen) \ {<<>>},
                    sim \in BoundedSeqs(SeriesValues, MaxSeriesLen) \ {<<>>} }
    /\ Len(series.observed) = Len(series.simulated)
    /\ metric = "none"
    /\ metricValue = NotCalled
    /\ Idle({"batch", "cultivar", "cum", "format", "soil", "run", "out", "fix", "read", "dirs", "chunk", "sec"})

SpecEff == InitEff /\ [][efficiency_call]_vars

InitFix ==
    /\ given \in { <<TableOf(general, 1), TableOf(layered, n)>> :
                   general \in FixColumnChoices.general,
                   layered \in FixColumnChoices.layered,
                   n \in 0..MaxFixRows }
    /\ fixedTables = <<>>
    /\ Idle({"batch", "cultivar", "cum", "format", "soil", "run", "out", "eff", "read", "dirs", "chunk", "sec"})

SpecFix == InitFix /\ [][fix_missing_soil_param_call]_vars

InitReadSoil ==
    /\ solFile \in ReadFileChoices
    /\ solId \in {Label.SA01, Label.SB02}
    /\ profileRead = NotCalled
    /\ Idle({"batch", "cultivar", "cum", "format", "soil", "run", "out", "eff", "fix", "dirs", "chunk", "sec"})

SpecReadSoil == InitReadSoil /\ [][read_soil_profile_call]_vars

InitCultivarDirs ==
    /\ culArgs \in UNION { { [crop |-> crop, param |-> param] :
                               param \in ParamChoices(crop) } : crop \in Crops }
    /\ culSrc \in {Some(file) : file \in CulFileChoices}
                  \cup (IF culArgs.crop = "potato" THEN {None} ELSE {})
    /\ culDst \in {NoFile} \cup {FileWith(file) : file \in CulFileChoices}
    /\ culReturn = NotCalled
    /\ Idle({"batch", "cultivar", "cum", "format", "soil", "run", "out", "eff", "fix", "read", "chunk", "sec"})

SpecCultivarDirs == InitCultivarDirs /\ [][update_cultivar_call]_vars

InitChunks ==
    /\ chunkText \in ChunkTextChoices
    /\ chunkTfile \in BOOLEAN
    /\ chunkResult = NotCalled
    /\ Idle({"batch", "cultivar", "cum", "format", "soil", "run", "out", "eff", "fix", "read", "dirs", "sec"})

SpecChunks == InitChunks /\ [][get_dataChunk_indices_call]_vars

InitSection ==
    /\ xFile \in SectionFileChoices
    /\ sectionName = ExpLine.SectionName
    /\ sectionResult = NotCalled
    /\ Idle({"batch", "cultivar", "cum", "format", "soil", "run", "out", "eff", "fix", "read", "dirs", "chunk"})

SpecSection == InitSection /\ [][get_section_df_call]_vars

====
